---------------------------- MODULE Spec2Model ----------------------------
(***************************************************************************)
(* Data Alchemist: the validation engine of the ValidationPanel component *)
(* (src/components/data-upload.tsx, second half), the dashboard state that *)
(* feeds it (src/app/dashboard/page.tsx) and the grid edit that changes    *)
(* that state (src/components/data-grid.tsx).                              *)
(*                                                                         *)
(* Cell values are the closed union of the values a parsed spreadsheet or  *)
(* a JSON.parse can put in a record.  A string is a sequence of atoms: an  *)
(* atom is one character of the set the code inspects (digits, comma,      *)
(* blank, dot, minus, brackets, braces, colon, double quote) or one word   *)
(* that starts with a letter.  Numbers carry one decimal digit: n + f/10.  *)
(***************************************************************************)
EXTENDS Integers, Sequences, FiniteSets, TLC

---------------------------------------------------------------------------
(* Sequence helpers *)

RECURSIVE Flatten(_)
Flatten(ss) ==
  IF ss = <<>> THEN <<>> ELSE Head(ss) \o Flatten(Tail(ss))

Range(s) == {s[i] : i \in 1..Len(s)}

RECURSIVE SeqSum(_)
SeqSum(s) ==
  IF s = <<>> THEN 0 ELSE Head(s) + SeqSum(Tail(s))

\* the number of positions of s holding x
Count(s, x) == Cardinality({i \in 1..Len(s) : s[i] = x})

\* Array.prototype.indexOf: the first position holding x, 0 when there is none
IndexOf(s, x) ==
  IF \E i \in 1..Len(s) : s[i] = x
  THEN CHOOSE i \in 1..Len(s) : s[i] = x /\ \A j \in 1..(i-1) : s[j] # x
  ELSE 0

\* [...new Set(s)]: first occurrences, in order
Dedup(s) ==
  LET keep == {i \in 1..Len(s) : IndexOf(s, s[i]) = i}
      F[i \in 0..Len(s)] ==
        IF i = 0 THEN <<>>
        ELSE IF i \in keep THEN Append(F[i-1], s[i]) ELSE F[i-1]
  IN F[Len(s)]

---------------------------------------------------------------------------
(* Cell values *)

Undef      == [k |-> "undef", n |-> 0, f |-> 0, s |-> <<>>, l |-> <<>>]
Null       == [k |-> "null",  n |-> 0, f |-> 0, s |-> <<>>, l |-> <<>>]
Num(n)     == [k |-> "num",   n |-> n, f |-> 0, s |-> <<>>, l |-> <<>>]
Frac(n, f) == [k |-> "num",   n |-> n, f |-> f, s |-> <<>>, l |-> <<>>]
Bool(b)    == [k |-> "bool",  n |-> IF b THEN 1 ELSE 0, f |-> 0, s |-> <<>>, l |-> <<>>]
Str(s)     == [k |-> "str",   n |-> 0, f |-> 0, s |-> s,    l |-> <<>>]
List(l)    == [k |-> "list",  n |-> 0, f |-> 0, s |-> <<>>, l |-> l]
Obj        == [k |-> "obj",   n |-> 0, f |-> 0, s |-> <<>>, l |-> <<>>]

\* a numeric result: NaN, or n + f/10
NaN        == [nan |-> TRUE,  n |-> 0, f |-> 0]
Val(n, f)  == [nan |-> FALSE, n |-> n, f |-> f]

Digits == <<"0", "1", "2", "3", "4", "5", "6", "7", "8", "9">>
IsDigit(a) == \E i \in 1..Len(Digits) : Digits[i] = a
DigitVal(a) == (CHOOSE i \in 1..Len(Digits) : Digits[i] = a) - 1
IsSpace(a) == a = " "

RECURSIVE NatToAtoms(_)
NatToAtoms(n) ==
  IF n < Len(Digits) THEN <<Digits[n + 1]>>
  ELSE Append(NatToAtoms(n \div Len(Digits)), Digits[(n % Len(Digits)) + 1])

IntToAtoms(n) == IF n < 0 THEN <<"-">> \o NatToAtoms(-n) ELSE NatToAtoms(n)

\* the longest prefix of digits of s
RECURSIVE DigitPrefix(_)
DigitPrefix(s) ==
  IF s # <<>> /\ IsDigit(Head(s)) THEN <<Head(s)>> \o DigitPrefix(Tail(s)) ELSE <<>>

RECURSIVE AtomsToNat(_)
AtomsToNat(d) ==
  IF d = <<>> THEN 0
  ELSE AtomsToNat(SubSeq(d, 1, Len(d) - 1)) * Len(Digits) + DigitVal(d[Len(d)])

RECURSIVE TrimLeft(_)
TrimLeft(s) ==
  IF s # <<>> /\ IsSpace(Head(s)) THEN TrimLeft(Tail(s)) ELSE s

RECURSIVE TrimRight(_)
TrimRight(s) ==
  IF s # <<>> /\ IsSpace(s[Len(s)]) THEN TrimRight(SubSeq(s, 1, Len(s) - 1)) ELSE s

\* String.prototype.trim
Trim(s) == TrimRight(TrimLeft(s))

\* String.prototype.split(","): the pieces between the commas
RECURSIVE Split(_)
Split(s) ==
  IF \E i \in 1..Len(s) : s[i] = ","
  THEN LET i == CHOOSE i \in 1..Len(s) : s[i] = "," /\ \A j \in 1..(i-1) : s[j] # ","
       IN <<SubSeq(s, 1, i - 1)>> \o Split(SubSeq(s, i + 1, Len(s)))
  ELSE <<s>>

\* Array.prototype.join(sep) over strings
RECURSIVE Join(_, _)
Join(ss, sep) ==
  IF ss = <<>> THEN <<>>
  ELSE IF Len(ss) = 1 THEN ss[1]
  ELSE ss[1] \o sep \o Join(Tail(ss), sep)

\* String(x) of a scalar
ScalarToStr(c) ==
  CASE c.k = "undef" -> <<"undefined">>
    [] c.k = "null"  -> <<"null">>
    [] c.k = "bool"  -> IF c.n = 1 THEN <<"true">> ELSE <<"false">>
    [] c.k = "num"   -> IntToAtoms(c.n)
                        \o (IF c.f = 0 THEN <<>> ELSE <<".", Digits[c.f + 1]>>)
    [] c.k = "str"   -> c.s
    [] OTHER         -> <<"[object Object]">>

\* an element of a joined array: null and undefined give the empty string
ItemToStr(c) == IF c.k \in {"undef", "null"} THEN <<>> ELSE ScalarToStr(c)

\* String(x)
ToStr(c) ==
  IF c.k = "list"
  THEN Join([i \in 1..Len(c.l) |-> ItemToStr(c.l[i])], <<",">>)
  ELSE ScalarToStr(c)

\* Boolean(x)
Truthy(c) ==
  CASE c.k \in {"undef", "null"} -> FALSE
    [] c.k = "bool" -> c.n = 1
    [] c.k = "num"  -> ~(c.n = 0 /\ c.f = 0)
    [] c.k = "str"  -> c.s # <<>>
    [] OTHER        -> TRUE

\* a decimal literal: digits, or digits "." digits, with an optional sign
UnsignedLiteral(s) ==
  LET d == DigitPrefix(s)
      r == SubSeq(s, Len(d) + 1, Len(s))
  IN /\ d # <<>>
     /\ \/ r = <<>>
        \/ /\ Len(r) >= 1 /\ r[1] = "."
           /\ \A i \in 2..Len(r) : IsDigit(r[i])

UnsignedValue(s) ==
  LET d == DigitPrefix(s)
      r == SubSeq(s, Len(d) + 1, Len(s))
  IN Val(AtomsToNat(d), IF Len(r) >= 2 THEN DigitVal(r[2]) ELSE 0)

\* Number(string): blank is 0, a decimal literal its value, anything else NaN
StrToNumber(s) ==
  LET t == Trim(s)
  IN IF t = <<>> THEN Val(0, 0)
     ELSE IF t[1] \in {"-", "+"}
     THEN IF UnsignedLiteral(Tail(t))
          THEN LET v == UnsignedValue(Tail(t))
               IN IF t[1] = "-" /\ v.f = 0 THEN Val(-v.n, 0)
                  ELSE IF t[1] = "-" THEN NaN ELSE v
          ELSE NaN
     ELSE IF UnsignedLiteral(t) THEN UnsignedValue(t) ELSE NaN

\* Number(x)
ToNumber(c) ==
  CASE c.k = "num"   -> Val(c.n, c.f)
    [] c.k = "bool"  -> Val(c.n, 0)
    [] c.k = "null"  -> Val(0, 0)
    [] c.k = "str"   -> StrToNumber(c.s)
    [] c.k = "list"  -> StrToNumber(ToStr(c))
    [] OTHER         -> NaN

\* Number.parseInt(x): String(x), leading blanks skipped, an optional sign, then
\* the longest run of digits; NaN when there is no digit
ParseInt(c) ==
  LET t == TrimLeft(ToStr(c))
      neg == t # <<>> /\ t[1] = "-"
      u == IF t # <<>> /\ t[1] \in {"-", "+"} THEN Tail(t) ELSE t
      d == DigitPrefix(u)
  IN IF d = <<>> THEN NaN
     ELSE Val(IF neg THEN -AtomsToNat(d) ELSE AtomsToNat(d), 0)

\* x < 1 for a numeric result that is not NaN
LessThanOne(v) == v.n < 1

---------------------------------------------------------------------------
(* JSON.parse, for texts of one level: a scalar (null, true, false, a       *)
(* number, a quoted word), an array of scalars, an object of "key": scalar. *)
(* Quoted text holds no comma, colon, quote or bracket.                     *)

Quote == "\""

JsonNumber(t) ==
  LET u == IF t # <<>> /\ t[1] = "-" THEN Tail(t) ELSE t
      d == DigitPrefix(u)
      r == SubSeq(u, Len(d) + 1, Len(u))
  IN /\ d # <<>>
     /\ (Len(d) > 1 => d[1] # "0")
     /\ \/ r = <<>>
        \/ /\ Len(r) >= 2 /\ r[1] = "."
           /\ \A i \in 2..Len(r) : IsDigit(r[i])

JsonString(t) ==
  /\ Len(t) >= 2 /\ t[1] = Quote /\ t[Len(t)] = Quote
  /\ \A i \in 2..(Len(t) - 1) : t[i] # Quote

\* [ok, v]: whether the text t (already trimmed) is a JSON scalar, and its value
JsonScalar(t) ==
  CASE t = <<"null">>  -> [ok |-> TRUE, v |-> Null]
    [] t = <<"true">>  -> [ok |-> TRUE, v |-> Bool(TRUE)]
    [] t = <<"false">> -> [ok |-> TRUE, v |-> Bool(FALSE)]
    [] JsonNumber(t)   -> [ok |-> TRUE,
                           v |-> LET x == StrToNumber(t) IN Frac(x.n, x.f)]
    [] JsonString(t)   -> [ok |-> TRUE, v |-> Str(SubSeq(t, 2, Len(t) - 1))]
    [] OTHER           -> [ok |-> FALSE, v |-> Undef]

\* one "key": scalar member of an object
JsonMember(t) ==
  /\ \E i \in 1..Len(t) : t[i] = ":"
  /\ LET i == CHOOSE i \in 1..Len(t) : t[i] = ":" /\ \A j \in 1..(i-1) : t[j] # ":"
     IN /\ JsonString(Trim(SubSeq(t, 1, i - 1)))
        /\ JsonScalar(Trim(SubSeq(t, i + 1, Len(t)))).ok

\* [ok, v]: ok is FALSE where JSON.parse throws a SyntaxError
JsonParse(s) ==
  LET t == Trim(s)
      inner == Trim(SubSeq(t, 2, Len(t) - 1))
      parts == Split(inner)
  IN IF Len(t) >= 2 /\ t[1] = "[" /\ t[Len(t)] = "]"
     THEN IF inner = <<>> THEN [ok |-> TRUE, v |-> List(<<>>)]
          ELSE IF \A i \in 1..Len(parts) : JsonScalar(Trim(parts[i])).ok
          THEN [ok |-> TRUE,
                v |-> List([i \in 1..Len(parts) |-> JsonScalar(Trim(parts[i])).v])]
          ELSE [ok |-> FALSE, v |-> Undef]
     ELSE IF Len(t) >= 2 /\ t[1] = "{" /\ t[Len(t)] = "}"
     THEN IF inner = <<>> \/ \A i \in 1..Len(parts) : JsonMember(Trim(parts[i]))
          THEN [ok |-> TRUE, v |-> Obj]
          ELSE [ok |-> FALSE, v |-> Undef]
     ELSE JsonScalar(t)

---------------------------------------------------------------------------
(* The coercers of the ValidationPanel *)

\* parseArrayField: the items of the list a cell coerces to
parseArrayField(field) ==
  IF ~Truthy(field) THEN <<>>
  ELSE IF field.k = "list" THEN field.l
  ELSE IF field.k = "str"
  THEN IF field.s[1] = "[" /\ field.s[Len(field.s)] = "]"
       THEN IF JsonParse(field.s).ok THEN JsonParse(field.s).v.l ELSE <<>>
       ELSE LET parts == Split(field.s)
            IN [i \in 1..Len(parts) |-> Str(Trim(parts[i]))]
  ELSE <<>>

\* parseJsonField: the value, {} for an absent or a non-text scalar cell, null for
\* a text JSON.parse rejects
parseJsonField(field) ==
  IF ~Truthy(field) THEN Obj
  ELSE IF field.k \in {"list", "obj"} THEN field
  ELSE IF field.k = "str"
  THEN IF JsonParse(field.s).ok THEN JsonParse(field.s).v ELSE Null
  ELSE Obj

---------------------------------------------------------------------------
(* Findings (ValidationResult) *)

\* no row index: a location that names the collection alone
NoIndex == <<>>

\* location is `coll` alone (idx = NoIndex), `coll[i]` (idx = <<i>>), or absent
\* (coll = "")
Finding(type, category, severity, coll, idx, msg) ==
  [type |-> type, category |-> category, severity |-> severity,
   coll |-> coll, idx |-> idx, msg |-> msg]

\* the outcome of one check: the findings it pushed, and whether it then threw
Returned(out) == [threw |-> FALSE, out |-> out]
Threw(out)    == [threw |-> TRUE,  out |-> out]

\* `row.ID || index`, as it is printed in a message
Label(id, index) == IF Truthy(id) THEN ToStr(id) ELSE NatToAtoms(index)

Collections == <<"clients", "workers", "tasks">>

requiredColumns ==
  [clients |-> <<"ClientID", "ClientName", "PriorityLevel">>,
   workers |-> <<"WorkerID", "WorkerName", "Skills", "AvailableSlots", "MaxLoadPerPhase">>,
   tasks   |-> <<"TaskID", "TaskName", "Duration", "RequiredSkills">>]

\* Object.keys(row): a key the parser did not produce reads as undefined
HasColumn(row, col) == row[col].k # "undef"

\* 1. Required columns
validateRequiredColumns(dataSet) ==
  LET PerType(type) ==
        LET data == dataSet[type]
            required == requiredColumns[type]
        IN IF Len(data) > 0
           THEN Flatten([c \in 1..Len(required) |->
                  IF ~HasColumn(data[1], required[c])
                  THEN <<Finding("error", "Missing Columns", "critical", type, NoIndex,
                                 <<<<required[c]>>, <<type>>>>)>>
                  ELSE <<>>])
           ELSE <<>>
  IN Returned(Flatten([t \in 1..Len(Collections) |-> PerType(Collections[t])]))

\* isNaN(Number(x)) || Number(x) < 1
InvalidPhase(item) == ToNumber(item).nan \/ LessThanOne(ToNumber(item))

\* 2. Data types and malformed lists
validateDataTypes(dataSet) ==
  LET PerRow(rows, i, listField, idField, coll) ==
        LET row == rows[i]
            items == parseArrayField(row[listField])
            invalid == SelectSeq(items, InvalidPhase)
        IN IF Truthy(row[listField]) /\ Len(invalid) > 0
           THEN <<Finding("error", "Malformed Data", "high", coll, <<i - 1>>,
                          <<Label(row[idField], i - 1),
                            Join([j \in 1..Len(invalid) |-> ItemToStr(invalid[j])],
                                 <<",", " ">>)>>)>>
           ELSE <<>>
  IN Returned(
       Flatten([i \in 1..Len(dataSet.workers) |->
                  PerRow(dataSet.workers, i, "AvailableSlots", "WorkerID", "workers")])
       \o Flatten([i \in 1..Len(dataSet.tasks) |->
                  PerRow(dataSet.tasks, i, "PreferredPhases", "TaskID", "tasks")]))

\* ids.indexOf(ids[i]): strict equality, which for an array or an object is
\* identity, and every row holds its own
StrictIndexOf(ids, i) ==
  IF ids[i].k \in {"list", "obj"} THEN i ELSE IndexOf(ids, ids[i])

\* the duplicates of checkDuplicates, already passed through new Set
DuplicatesOf(data, idField) ==
  LET ids == SelectSeq([i \in 1..Len(data) |-> data[i][idField]], Truthy)
      dup == {i \in 1..Len(ids) : StrictIndexOf(ids, i) # i}
      F[i \in 0..Len(ids)] ==
        IF i = 0 THEN <<>>
        ELSE IF i \in dup /\ (ids[i].k \in {"list", "obj"}
                              \/ \A j \in dup : j < i => ids[j] # ids[i])
        THEN Append(F[i-1], ids[i]) ELSE F[i-1]
  IN F[Len(ids)]

checkDuplicates(data, idField, type) ==
  LET duplicates == DuplicatesOf(data, idField)
  IN IF Len(duplicates) > 0
     THEN <<Finding("error", "Duplicate IDs", "critical", type, NoIndex,
                    <<<<idField>>>> \o [j \in 1..Len(duplicates) |-> ToStr(duplicates[j])])>>
     ELSE <<>>

\* 3. Duplicate IDs
validateDuplicateIds(dataSet) ==
  Returned(checkDuplicates(dataSet.clients, "ClientID", "clients")
           \o checkDuplicates(dataSet.workers, "WorkerID", "workers")
           \o checkDuplicates(dataSet.tasks, "TaskID", "tasks"))

MinPriority == 1
MaxPriority == 5
MinDuration == 1
MinMaxLoad  == 1

PriorityOutOfRange(cell) ==
  LET priority == ParseInt(cell)
  IN priority.nan \/ priority.n < MinPriority \/ priority.n > MaxPriority

DurationOutOfRange(cell) ==
  LET duration == ParseInt(cell) IN duration.nan \/ duration.n < MinDuration

MaxLoadOutOfRange(cell) ==
  LET maxLoad == ParseInt(cell) IN maxLoad.nan \/ maxLoad.n < MinMaxLoad

\* 4. Value ranges
validateValueRanges(dataSet) ==
  LET Range1(rows, i, field, idField, coll, bad) ==
        IF bad
        THEN <<Finding("error", "Invalid Range", "high", coll, <<i - 1>>,
                       <<<<field>>, ToStr(rows[i][field]), Label(rows[i][idField], i - 1)>>)>>
        ELSE <<>>
  IN Returned(
       Flatten([i \in 1..Len(dataSet.clients) |->
          Range1(dataSet.clients, i, "PriorityLevel", "ClientID", "clients",
                 PriorityOutOfRange(dataSet.clients[i].PriorityLevel))])
       \o Flatten([i \in 1..Len(dataSet.tasks) |->
          Range1(dataSet.tasks, i, "Duration", "TaskID", "tasks",
                 DurationOutOfRange(dataSet.tasks[i].Duration))])
       \o Flatten([i \in 1..Len(dataSet.workers) |->
          Range1(dataSet.workers, i, "MaxLoadPerPhase", "WorkerID", "workers",
                 MaxLoadOutOfRange(dataSet.workers[i].MaxLoadPerPhase))]))

\* 5. JSON fields
validateJsonFields(dataSet) ==
  Returned(Flatten([i \in 1..Len(dataSet.clients) |->
    LET client == dataSet.clients[i]
    IN IF Truthy(client.AttributesJSON) /\ parseJsonField(client.AttributesJSON) = Null
       THEN <<Finding("error", "Broken JSON", "medium", "clients", <<i - 1>>,
                      <<Label(client.ClientID, i - 1)>>)>>
       ELSE <<>>]))

\* x.split(",") of a present cell that is not text raises a TypeError
SplitThrows(cell) == Truthy(cell) /\ cell.k # "str"

\* x.split(",").map(s => s.trim()) of a text cell; nothing for an absent one
SplitTrim(cell) ==
  IF Truthy(cell)
  THEN LET parts == Split(cell.s) IN [i \in 1..Len(parts) |-> Trim(parts[i])]
  ELSE <<>>

\* 6. Cross references
validateCrossReferences(dataSet) ==
  LET taskIds == {dataSet.tasks[i].TaskID : i \in {j \in 1..Len(dataSet.tasks) :
                                                     Truthy(dataSet.tasks[j].TaskID)}}
      clients == dataSet.clients
      bad == {i \in 1..Len(clients) : SplitThrows(clients[i].RequestedTaskIDs)}
      stop == IF bad = {} THEN Len(clients) + 1
              ELSE CHOOSE i \in bad : \A j \in bad : i <= j
      PerClient(i) ==
        LET requestedIds == SplitTrim(clients[i].RequestedTaskIDs)
        IN Flatten([r \in 1..Len(requestedIds) |->
             IF requestedIds[r] # <<>> /\ Str(requestedIds[r]) \notin taskIds
             THEN <<Finding("error", "Invalid Reference", "high", "clients", <<i - 1>>,
                            <<Label(clients[i].ClientID, i - 1), requestedIds[r]>>)>>
             ELSE <<>>])
      out == Flatten([i \in 1..(stop - 1) |-> PerClient(i)])
  IN IF bad = {} THEN Returned(out) ELSE Threw(out)

\* the Set of the trimmed pieces of one column, in insertion order
SkillSet(rows, field) ==
  Dedup(Flatten([i \in 1..Len(rows) |-> SplitTrim(rows[i][field])]))

\* 7. Skill coverage
validateSkillCoverage(dataSet) ==
  IF \/ \E i \in 1..Len(dataSet.tasks) : SplitThrows(dataSet.tasks[i].RequiredSkills)
     \/ \E i \in 1..Len(dataSet.workers) : SplitThrows(dataSet.workers[i].Skills)
  THEN Threw(<<>>)
  ELSE LET allRequiredSkills == SkillSet(dataSet.tasks, "RequiredSkills")
           allAvailableSkills == Range(SkillSet(dataSet.workers, "Skills"))
           Uncovered(skill) == skill \notin allAvailableSkills
           uncoveredSkills == SelectSeq(allRequiredSkills, Uncovered)
       IN IF Len(uncoveredSkills) > 0
          THEN Returned(<<Finding("error", "Skill Coverage", "critical", "", NoIndex,
                                  uncoveredSkills)>>)
          ELSE Returned(<<>>)

\* Number.parseInt(x) || 0
ParseIntOrZero(cell) == IF ParseInt(cell).nan THEN 0 ELSE ParseInt(cell).n

\* 8. Worker capacity
validateWorkerCapacity(dataSet) ==
  Returned(Flatten([i \in 1..Len(dataSet.workers) |->
    LET worker == dataSet.workers[i]
        availableSlots == parseArrayField(worker.AvailableSlots)
        maxLoad == ParseIntOrZero(worker.MaxLoadPerPhase)
    IN IF Len(availableSlots) > 0 /\ maxLoad > 0 /\ Len(availableSlots) * maxLoad = 0
       THEN <<Finding("warning", "Worker Capacity", "medium", "workers", <<i - 1>>,
                      <<Label(worker.WorkerID, i - 1)>>)>>
       ELSE <<>>]))

\* the ascending sequence of a finite set of integers
RECURSIVE Ascending(_)
Ascending(S) ==
  IF S = {} THEN <<>>
  ELSE LET m == CHOOSE m \in S : \A x \in S : m <= x
       IN <<m>> \o Ascending(S \ {m})

\* Object.keys of an object whose keys were inserted in the order `keys`: the
\* keys that are array indices ascending, then the others as inserted.
\* index[i] is the number of keys[i] when it is an array index, -1 otherwise.
ObjectKeys(keys, index) ==
  LET first == {i \in 1..Len(keys) : IndexOf(keys, keys[i]) = i}
      idx == Ascending({index[i] : i \in {j \in first : index[j] >= 0}})
  IN [i \in 1..Len(idx) |-> keys[CHOOSE j \in first : index[j] = idx[i]]]
     \o Dedup(Flatten([i \in 1..Len(keys) |->
                        IF index[i] < 0 THEN <<keys[i]>> ELSE <<>>]))

\* a phase number as a property key
PhaseIsIndex(v) == v.f = 0 /\ v.n >= 0
PhaseIndex(v) == v.n

\* phaseTotal[Number(phase)] += amount, for the items that are numbers
RowAdds(items, amount) ==
  Flatten([j \in 1..Len(items) |->
    IF ToNumber(items[j]).nan THEN <<>>
    ELSE <<[phase |-> ToNumber(items[j]), amount |-> amount]>>])

\* the (phase, amount) additions one collection makes to a per-phase total
PhaseAdds(rows, listField, amountField) ==
  Flatten([i \in 1..Len(rows) |->
    RowAdds(parseArrayField(rows[i][listField]), ParseIntOrZero(rows[i][amountField]))])

\* total[phase] || 0
PhaseTotal(adds, phase) ==
  SeqSum([i \in 1..Len(adds) |-> IF adds[i].phase = phase THEN adds[i].amount ELSE 0])

PhaseFinding(phase, demand, capacity) ==
  IF demand > capacity
  THEN <<Finding("warning", "Phase Saturation", "high", "", NoIndex,
                 <<ToStr(Frac(phase.n, phase.f)), IntToAtoms(demand), IntToAtoms(capacity)>>)>>
  ELSE <<>>

\* Object.keys(phaseDemand).forEach
OversaturatedPhases(phases, demandAdds, capacityAdds) ==
  Flatten([p \in 1..Len(phases) |->
    PhaseFinding(phases[p], PhaseTotal(demandAdds, phases[p]),
                 PhaseTotal(capacityAdds, phases[p]))])

PhaseKeys(adds) ==
  ObjectKeys([i \in 1..Len(adds) |-> adds[i].phase],
             [i \in 1..Len(adds) |->
                IF PhaseIsIndex(adds[i].phase) THEN PhaseIndex(adds[i].phase) ELSE -1])

PhaseConstraints(demandAdds, capacityAdds) ==
  OversaturatedPhases(PhaseKeys(demandAdds), demandAdds, capacityAdds)

\* 9. Phase constraints
validatePhaseConstraints(dataSet) ==
  Returned(PhaseConstraints(
    PhaseAdds(dataSet.tasks, "PreferredPhases", "Duration"),
    PhaseAdds(dataSet.workers, "AvailableSlots", "MaxLoadPerPhase")))

\* a skill name as a property key: an array index is a canonical numeral
SkillIsIndex(s) ==
  s # <<>> /\ (\A i \in 1..Len(s) : IsDigit(s[i])) /\ NatToAtoms(AtomsToNat(s)) = s

\* x.toFixed(0) of 100 * a / b, halves rounded up
Percent(a, b) == (200 * a + b) \div (2 * b)

\* x.toFixed(1) of a / b, in tenths
Tenths(a, b) == (20 * a + b) \div (2 * b)

MaxTasksPerWorker == 5
HighPriorities == {4, 5}

\* 10. Advisory findings
generateAiInsights(dataSet) ==
  LET nClients == Len(dataSet.clients)
      nWorkers == Len(dataSet.workers)
      nTasks == Len(dataSet.tasks)
      ratio ==
        IF nWorkers > 0 /\ nTasks > 0 /\ nTasks > MaxTasksPerWorker * nWorkers
        THEN <<Finding("warning", "AI Insights", "medium", "", NoIndex,
                       <<<<"ratio">>, ToStr(Frac(Tenths(nTasks, nWorkers) \div 10,
                                                 Tenths(nTasks, nWorkers) % 10))>>)>>
        ELSE <<>>
      uses == Flatten([i \in 1..Len(dataSet.tasks) |->
                         SplitTrim(dataSet.tasks[i].RequiredSkills)])
      skills == ObjectKeys(uses, [i \in 1..Len(uses) |->
                                    IF SkillIsIndex(uses[i]) THEN AtomsToNat(uses[i]) ELSE -1])
      top == IF skills = <<>> THEN 0
             ELSE CHOOSE i \in 1..Len(skills) :
                    /\ \A j \in 1..Len(skills) : Count(uses, skills[j]) <= Count(uses, skills[i])
                    /\ \A j \in 1..(i-1) : Count(uses, skills[j]) < Count(uses, skills[i])
      skill ==
        IF top # 0 /\ 2 * Count(uses, skills[top]) > nTasks
        THEN <<Finding("warning", "AI Insights", "medium", "", NoIndex,
                       <<<<"skill">>, skills[top], NatToAtoms(Count(uses, skills[top])),
                         NatToAtoms(Percent(Count(uses, skills[top]), nTasks))>>)>>
        ELSE <<>>
      highPriorityClients ==
        Cardinality({i \in 1..nClients :
          ParseIntOrZero(dataSet.clients[i].PriorityLevel) \in HighPriorities})
      priority ==
        IF 10 * highPriorityClients > 7 * nClients
        THEN <<Finding("warning", "AI Insights", "low", "", NoIndex,
                       <<<<"priority">>, NatToAtoms(highPriorityClients),
                         NatToAtoms(Percent(highPriorityClients, nClients))>>)>>
        ELSE <<>>
  IN IF \E i \in 1..Len(dataSet.tasks) : SplitThrows(dataSet.tasks[i].RequiredSkills)
     THEN Threw(ratio)
     ELSE Returned(ratio \o skill \o priority)

---------------------------------------------------------------------------
(* runValidation *)

validationSteps ==
  <<"Checking required columns...", "Validating data types and formats...",
    "Checking for duplicate IDs...", "Validating value ranges...",
    "Checking JSON fields...", "Validating cross-references...",
    "Analyzing skill coverage...", "Checking worker capacity...",
    "Validating phase constraints...", "Running AI-powered insights...",
    "Finalizing results...">>

\* the switch of the loop body: the check of step i (0-based); the last step
\* has none
\* the dispatch with the third and the fourth check exchanged
RunCheckSwapped(i, dataSet) ==
  CASE i = 0 -> validateRequiredColumns(dataSet)
    [] i = 1 -> validateDataTypes(dataSet)
    [] i = 2 -> validateValueRanges(dataSet)
    [] i = 3 -> validateDuplicateIds(dataSet)
    [] i = 4 -> validateJsonFields(dataSet)
    [] i = 5 -> validateCrossReferences(dataSet)
    [] i = 6 -> validateSkillCoverage(dataSet)
    [] i = 7 -> validateWorkerCapacity(dataSet)
    [] i = 8 -> validatePhaseConstraints(dataSet)
    [] i = 9 -> generateAiInsights(dataSet)
    [] OTHER -> Returned(<<>>)

\* the switch of runValidation: the check of step i
RunCheck(i, dataSet) ==
  CASE i = 0 -> validateRequiredColumns(dataSet)
    [] i = 1 -> validateDataTypes(dataSet)
    [] i = 2 -> validateDuplicateIds(dataSet)
    [] i = 3 -> validateValueRanges(dataSet)
    [] i = 4 -> validateJsonFields(dataSet)
    [] i = 5 -> validateCrossReferences(dataSet)
    [] i = 6 -> validateSkillCoverage(dataSet)
    [] i = 7 -> validateWorkerCapacity(dataSet)
    [] i = 8 -> validatePhaseConstraints(dataSet)
    [] i = 9 -> generateAiInsights(dataSet)
    [] OTHER -> Returned(<<>>)

\* a run that went on from the list on display
InitialResultsKept(shown) == shown

\* const results = [] at the start of a run; `shown` is the list on display
InitialResults(shown) == <<>>

\* a filter that takes every error for a critical one
IsAnyError(r) == r.type = "error"

IsCriticalError(r) == r.type = "error" /\ r.severity = "critical"

SuccessFinding ==
  Finding("success", "Data Quality", "low", "", NoIndex,
          <<<<"All critical validations passed successfully">>>>)

\* the end of runValidation: the success finding goes first when no finding is a
\* critical error
Finalize(results) ==
  IF Len(SelectSeq(results, IsCriticalError)) = 0
  THEN <<SuccessFinding>> \o results
  ELSE results

---------------------------------------------------------------------------
(* Bounds *)

\* the rows of an uploaded collection
MaxRows == 2
\* the validation runs of one behaviour
MaxRuns == 2
\* the files processed in one behaviour
MaxUploads == 2
\* the grid cells saved in one behaviour
MaxEdits == 1

---------------------------------------------------------------------------
(* Records *)

S(a) == Str(<<a>>)

Client(id, priority, requested, attributes) ==
  [ClientID |-> id, ClientName |-> S("Acme"), PriorityLevel |-> priority,
   RequestedTaskIDs |-> requested, AttributesJSON |-> attributes]

Worker(id, skills, slots, maxLoad) ==
  [WorkerID |-> id, WorkerName |-> S("Ann"), Skills |-> skills,
   AvailableSlots |-> slots, MaxLoadPerPhase |-> maxLoad]

Task(id, duration, skills, phases) ==
  [TaskID |-> id, TaskName |-> S("Build"), Duration |-> duration,
   RequiredSkills |-> skills, PreferredPhases |-> phases]

\* the sequences of at most n elements of P
SeqsUpTo(P, n) == UNION {[1..m -> P] : m \in 0..n}

EmptyDataSet == [clients |-> <<>>, workers |-> <<>>, tasks |-> <<>>]

HasData(ds) == Len(ds.clients) > 0 \/ Len(ds.workers) > 0 \/ Len(ds.tasks) > 0

\* cell texts
JsonObjectText == Str(<<"{", Quote, "vip", Quote, ":", "1", "}">>)
BadJsonText    == Str(<<"{", "bad", " ", "json">>)
SlotsText      == Str(<<"[", "1", ",", "2", "]">>)
BadSlotsText   == Str(<<"[", "1", ",", "2", ",", "]">>)

BaseClient == Client(S("C1"), S("3"), S("T1"), JsonObjectText)
BaseWorker == Worker(S("W1"), S("java"), SlotsText, S("2"))
BaseTask   == Task(S("T1"), S("1"), S("java"), S("1"))

(* the cells the catalogue is exercised with *)
IdCells(a, b) ==
  {S(a), S(b), Num(0), Num(1), S("1"), Str(<<>>), Undef}

PriorityCells ==
  {S("3"), S("5"), Num(4), Num(6), Num(0), Frac(3, 5), Str(<<"3", "abc">>),
   S("abc"), Str(<<" ", "2">>), Str(<<"-", "1">>), Undef}

RequestedCells ==
  {S("T1"), Str(<<"T1", ",", " ", "T9">>), Str(<<"T9", ",", "T9">>), Num(101),
   List(<<S("T1")>>), Undef}

AttributeCells ==
  {JsonObjectText, BadJsonText, S("null"), Str(<<"{", "}">>), S("7"), Obj, Num(7),
   Str(<<>>), Undef}

SlotCells ==
  {SlotsText, BadSlotsText, Str(<<"1", ",", "2">>), Str(<<"1", ",", "x">>),
   Str(<<"[", "x", "]">>), Str(<<"[", "0", "]">>), Str(<<"1", "-", "3">>),
   List(<<Num(1), Num(2)>>), List(<<Num(1), Null>>), Num(3), S("3"), Undef,
   Str(<<"1", ",", "1">>)}

AmountCells ==
  {S("2"), Num(1), Num(0), Num(3), Frac(2, 5), Frac(0, 5), Str(<<"2", "x">>),
   S("abc"), Undef}

SkillCells ==
  {S("java"), Str(<<"java", ",", " ", "py">>), S("py"), Str(<<"java", ",">>),
   Str(<<"java", ",", "java">>), List(<<S("java")>>), Num(5), Undef}

\* the datasets of the catalogue's own specification: one aspect varies at a time
CatalogDataSets ==
  \* the ID column of each collection
  {[clients |-> c, workers |-> <<>>, tasks |-> <<>>] :
     c \in SeqsUpTo({Client(id, S("3"), Undef, Undef) : id \in IdCells("C1", "C2")}, MaxRows)}
  \cup {[clients |-> <<>>, workers |-> w, tasks |-> <<>>] :
     w \in SeqsUpTo({Worker(id, S("java"), SlotsText, S("2")) : id \in IdCells("W1", "W2")}, MaxRows)}
  \cup {[clients |-> <<>>, workers |-> <<>>, tasks |-> k] :
     k \in SeqsUpTo({Task(id, S("1"), Undef, S("1")) : id \in IdCells("T1", "T2")}, MaxRows)}
  \* the cells of a client
  \cup {[clients |-> <<BaseClient, Client(S("C2"), p, r, a)>>, workers |-> <<BaseWorker>>,
         tasks |-> <<BaseTask>>] :
     p \in PriorityCells, r \in {S("T1")}, a \in AttributeCells}
  \cup {[clients |-> <<Client(S("C2"), S("3"), r, a), BaseClient>>, workers |-> <<BaseWorker>>,
         tasks |-> k] :
     r \in RequestedCells, a \in {JsonObjectText, BadJsonText},
     k \in {<<>>, <<BaseTask>>, <<Task(Num(101), S("1"), S("java"), S("1"))>>}}
  \* slots, phases, loads and durations
  \cup {[clients |-> <<>>, workers |-> <<Worker(S("W1"), S("java"), s, m)>>,
         tasks |-> <<Task(S("T1"), d, S("java"), p)>>] :
     s \in SlotCells, m \in {S("2"), Num(0)}, d \in {S("1"), Num(3)}, p \in SlotCells}
  \cup {[clients |-> <<>>, workers |-> <<Worker(S("W1"), S("java"), SlotsText, m)>>,
         tasks |-> <<Task(S("T1"), d, S("java"), Str(<<"1", ",", "2">>)), BaseTask>>] :
     m \in AmountCells, d \in AmountCells}
  \* skills
  \cup {[clients |-> <<>>, workers |-> w, tasks |-> k] :
     w \in SeqsUpTo({Worker(S("W1"), s, SlotsText, S("2")) : s \in SkillCells}, 1),
     k \in SeqsUpTo({Task(S("T1"), S("1"), s, S("1")) : s \in SkillCells}, MaxRows)}

\* the files of the interleaving specification
UploadRows ==
  [clients |-> {<<BaseClient>>,
                <<Client(S("C1"), Num(6), S("T9"), BadJsonText),
                  Client(S("C1"), S("3"), S("T1"), JsonObjectText)>>,
                <<Client(S("C1"), S("3"), Num(101), JsonObjectText)>>},
   workers |-> {<<BaseWorker>>,
                <<Worker(S("W1"), S("py"), Str(<<"1", ",", "x">>), Num(0))>>},
   tasks   |-> {<<BaseTask>>,
                <<Task(S("T1"), Num(3), S("java"), Str(<<"1", ",", "2">>)), BaseTask>>,
                <<>>}]

\* the cells a user saves in the grid: the input's value is always text
EditColumns ==
  [clients |-> {"PriorityLevel", "ClientID"},
   workers |-> {"Skills"},
   tasks   |-> {"RequiredSkills", "Duration"}]

EditValues == {S("9"), S("py")}

---------------------------------------------------------------------------
(* State *)

VARIABLES
  dataSet,            \* DashboardPage: the three collections
  rowsId,             \* the identity of each collection's row objects
  activeTab,          \* DashboardPage: "data" shows the grid and the panel
  validationResults,  \* DashboardPage: the findings on display
  isValidating,       \* ValidationPanel state
  validationProgress, \* ValidationPanel state, in steps of the eleven
  currentStep,        \* ValidationPanel state
  runs,               \* the calls of runValidation, in the order they started
  uploads,            \* files processed so far
  edits,              \* cells saved so far
  search,             \* NaturalLanguageSearch: its props and state while mounted
  converter,          \* RuleBuilder and its AIRuleConverter while mounted
  ruleBuilder,        \* RuleBuilder: its rule collection and form while mounted
  prioritization,     \* PrioritizationControls: its state while mounted
  exporter,           \* ExportInterface: its state while mounted
  downloads,          \* the configuration file written last
  grid,               \* DataGrid: its collection tab and filter while mounted
  calls               \* the calls of handleSearch that have not ended

\* the data, the validation panel and the assisted components
dataVars == <<dataSet, rowsId, validationResults, isValidating, validationProgress,
              currentStep, runs, uploads, edits, search, converter>>

\* the state of the rules, priorities and export tabs
builderVars == <<ruleBuilder, prioritization, exporter, downloads>>

\* the state of the grid and of the searches of its search box
gridVars == <<grid, calls>>

vars == <<dataSet, rowsId, activeTab, validationResults, isValidating,
          validationProgress, currentStep, runs, uploads, edits, search, converter,
          builderVars, gridVars>>

\* a call of runValidation that has set its state and awaits its first delay.
\* `data` is what the closure's dataSet reads now, `ids` the row objects it
\* holds; data0 and dirty record the snapshot taken and whether it was written.
NewRun(ds, ids, shown) ==
  [status |-> "running", i |-> 0, data |-> ds, ids |-> ids,
   results |-> InitialResults(shown), attached |-> TRUE, data0 |-> ds, dirty |-> FALSE]

\* the panel's state as runValidation leaves it before its first await
StartRun(ds, ids) ==
  /\ runs' = Append(runs, NewRun(ds, ids, validationResults))
  /\ isValidating' = TRUE
  /\ validationProgress' = 0
  /\ currentStep' = validationSteps[1]

\* the state of a component that is not on the page
Unmounted == [phase |-> "unmounted"]

\* no configuration file has been written
NoFile == [name |-> "none"]

\* the rules, priorities and export tabs are closed, no file has been written,
\* and the filter of the grid is not in use
TabsClosed ==
  /\ ruleBuilder = Unmounted
  /\ prioritization = Unmounted
  /\ exporter = Unmounted
  /\ downloads = NoFile
  /\ grid = Unmounted
  /\ calls = <<>>

PanelIdle ==
  /\ isValidating' = FALSE
  /\ validationProgress' = 0
  /\ currentStep' = ""

Init ==
  /\ dataSet = EmptyDataSet
  /\ rowsId = [clients |-> 0, workers |-> 0, tasks |-> 0]
  /\ activeTab = "upload"
  /\ validationResults = <<>>
  /\ isValidating = FALSE
  /\ validationProgress = 0
  /\ currentStep = ""
  /\ runs = <<>>
  /\ uploads = 0
  /\ edits = 0
  /\ search = Unmounted
  /\ converter = Unmounted
  /\ TabsClosed

---------------------------------------------------------------------------
(* Operations *)

\* DataUpload.processFile -> DashboardPage.handleDataUploaded: the collection is
\* replaced by freshly parsed rows and a non-empty file opens the data tab.  The
\* panel's effect on [dataSet] (also run when the panel mounts) starts a run
\* when some collection has rows.
Upload(type, rows) ==
  LET ds == [dataSet EXCEPT ![type] = rows]
      ids == [rowsId EXCEPT ![type] = @ + 1]
      tab == IF Len(rows) > 0 THEN "data" ELSE activeTab
      starts == tab = "data" /\ HasData(ds)
  IN /\ uploads < MaxUploads
     /\ starts => Len(runs) < MaxRuns
     /\ dataSet' = ds
     /\ rowsId' = ids
     /\ activeTab' = tab
     /\ uploads' = uploads + 1
     /\ IF starts THEN StartRun(ds, ids)
        ELSE UNCHANGED <<runs, isValidating, validationProgress, currentStep>>
     /\ UNCHANGED <<validationResults, edits, search, converter, builderVars, gridVars>>

\* the data tab is opened: the panel mounts with fresh state and its effect runs
OpenDataTab ==
  /\ activeTab # "data"
  /\ HasData(dataSet)
  /\ Len(runs) < MaxRuns
  /\ activeTab' = "data"
  /\ StartRun(dataSet, rowsId)
  /\ UNCHANGED <<dataSet, rowsId, validationResults, uploads, edits, search, converter, builderVars, gridVars>>

\* another tab is opened: the panel unmounts, its state is dropped and the runs
\* it started go on without it
LeaveDataTab ==
  /\ activeTab = "data"
  /\ activeTab' = "upload"
  /\ runs' = [r \in 1..Len(runs) |-> [runs[r] EXCEPT !.attached = FALSE]]
  /\ PanelIdle
  /\ UNCHANGED <<dataSet, rowsId, validationResults, uploads, edits, search, converter, builderVars, gridVars>>

\* DataGrid.handleSaveEdit: the row object is written in place, under a new
\* array and a new dataSet object; every holder of the row sees the write.  The
\* new dataSet fires the panel's effect.
SaveEdit(type, row, col, value) ==
  LET ds == [dataSet EXCEPT ![type][row][col] = value]
      Seen(run) ==
        IF run.status = "running" /\ run.ids[type] = rowsId[type]
        THEN [run EXCEPT !.data[type][row][col] = value,
                         !.dirty = @ \/ run.data[type][row][col] # value]
        ELSE run
  IN /\ activeTab = "data"
     /\ edits < MaxEdits
     /\ Len(runs) < MaxRuns
     /\ row \in 1..Len(dataSet[type])
     /\ dataSet' = ds
     /\ edits' = edits + 1
     /\ runs' = Append([r \in 1..Len(runs) |-> Seen(runs[r])],
                       NewRun(ds, rowsId, validationResults))
     /\ isValidating' = TRUE
     /\ validationProgress' = 0
     /\ currentStep' = validationSteps[1]
     /\ UNCHANGED <<rowsId, activeTab, validationResults, uploads, search, converter, builderVars, gridVars>>

\* the Re-validate button, enabled while isValidating is false
ClickRevalidate ==
  /\ activeTab = "data"
  /\ ~isValidating
  /\ Len(runs) < MaxRuns
  /\ StartRun(dataSet, rowsId)
  /\ UNCHANGED <<dataSet, rowsId, activeTab, validationResults, uploads, edits,
                 search, converter, builderVars, gridVars>>

\* the continuation of run r after a delay, `check` being the outcome of the
\* step's check
Resume(r, run, check) ==
  LET last == run.i = Len(validationSteps) - 1
      results == run.results \o check.out
  IN /\ runs' = [runs EXCEPT ![r] =
          IF check.threw THEN [run EXCEPT !.status = "threw", !.results = results]
          ELSE IF last THEN [run EXCEPT !.status = "done", !.results = Finalize(results)]
          ELSE [run EXCEPT !.i = @ + 1, !.results = results]]
     /\ validationResults' =
          IF ~check.threw /\ last THEN Finalize(results) ELSE validationResults
     /\ isValidating' =
          IF run.attached /\ ~check.threw /\ last THEN FALSE ELSE isValidating
     /\ validationProgress' =
          IF run.attached THEN run.i + 1 ELSE validationProgress
     /\ currentStep' =
          IF ~run.attached \/ check.threw THEN currentStep
          ELSE IF last THEN "" ELSE validationSteps[run.i + 2]

\* one delay of run r elapses: the progress is set and the step's check runs.
\* After the last step the findings are published and the panel is reset.  A
\* check that throws rejects the call's promise: nothing after it runs.
RunStep(r) ==
  /\ r \in 1..Len(runs)
  /\ runs[r].status = "running"
  /\ Resume(r, runs[r], RunCheck(runs[r].i, runs[r].data))
  /\ UNCHANGED <<dataSet, rowsId, activeTab, uploads, edits, search, converter, builderVars, gridVars>>

Next ==
  \/ \E type \in DOMAIN UploadRows : \E rows \in UploadRows[type] : Upload(type, rows)
  \/ OpenDataTab
  \/ LeaveDataTab
  \/ \E type \in DOMAIN EditColumns : \E row \in 1..MaxRows :
       \E col \in EditColumns[type] : \E value \in EditValues :
         SaveEdit(type, row, col, value)
  \/ ClickRevalidate
  \/ \E r \in 1..MaxRuns : RunStep(r)

Spec == Init /\ [][Next]_vars

\* The catalogue on its own: the panel has mounted on an uploaded dataset and
\* its effect has started the first run; the user may run it again.
CatalogInit ==
  /\ dataSet \in CatalogDataSets
  /\ HasData(dataSet)
  /\ rowsId = [clients |-> 1, workers |-> 1, tasks |-> 1]
  /\ activeTab = "data"
  /\ validationResults = <<>>
  /\ isValidating = TRUE
  /\ validationProgress = 0
  /\ currentStep = validationSteps[1]
  /\ runs = <<NewRun(dataSet, rowsId, validationResults)>>
  /\ uploads = 0
  /\ edits = 0
  /\ search = Unmounted
  /\ converter = Unmounted
  /\ TabsClosed

CatalogNext ==
  \/ ClickRevalidate
  \/ \E r \in 1..MaxRuns : RunStep(r)

CatalogSpec == CatalogInit /\ [][CatalogNext]_vars

---------------------------------------------------------------------------
(* Properties *)

Ended(run) == run.status \in {"done", "threw"}

\* what a run has published: its list once it is done, nothing if it threw
Published(run) == IF run.status = "done" THEN run.results ELSE <<>>

HasCritical(res) ==
  \E j \in 1..Len(res) : res[j].type = "error" /\ res[j].severity = "critical"

SuccessFirst(res) ==
  Len(res) > 0 /\ res[1].type = "success" /\ res[1].category = "Data Quality"

SuccessRule(res) ==
  /\ SuccessFirst(res) <=> ~HasCritical(res)
  /\ \A j \in 2..Len(res) : res[j].type # "success"

\* C1: at the end of every validation run the published list starts with the
\* success finding (category 'Data Quality') exactly when it holds no finding
\* of type error and severity critical, and holds no success finding otherwise;
\* the list on display is such a list as soon as a run has published.
C1_SuccessIffNoCritical ==
  /\ \A r \in 1..Len(runs) : runs[r].status = "done" => SuccessRule(runs[r].results)
  /\ (\E r \in 1..Len(runs) : runs[r].status = "done") =>
       /\ SuccessRule(validationResults)
       /\ \E r \in 1..Len(runs) :
            runs[r].status = "done" /\ runs[r].results = validationResults

\* C1 witness: one run has published a list with a critical error and no success
\* finding, and the list on display starts with the success finding.
C1_Witness ==
  /\ \E r \in 1..Len(runs) :
       /\ runs[r].status = "done"
       /\ HasCritical(runs[r].results)
       /\ ~SuccessFirst(runs[r].results)
  /\ SuccessFirst(validationResults)
  /\ Len(validationResults) > 1

CategoryOrder ==
  <<"Missing Columns", "Malformed Data", "Duplicate IDs", "Invalid Range",
    "Broken JSON", "Invalid Reference", "Skill Coverage", "Worker Capacity",
    "Phase Saturation", "AI Insights">>

CheckOf(category) == CHOOSE k \in 1..Len(CategoryOrder) : CategoryOrder[k] = category

\* the findings of the checks in a published list
CheckFindings(res) == IF SuccessFirst(res) THEN Tail(res) ELSE res

InCatalogOrder(fs) ==
  /\ \A j \in 1..Len(fs) : fs[j].category \in Range(CategoryOrder)
  /\ \A j \in 1..(Len(fs) - 1) : CheckOf(fs[j].category) <= CheckOf(fs[j+1].category)

\* what the ten checks find in ds, check after check
CatalogFindings(ds) ==
  validateRequiredColumns(ds).out \o validateDataTypes(ds).out
  \o validateDuplicateIds(ds).out \o validateValueRanges(ds).out
  \o validateJsonFields(ds).out \o validateCrossReferences(ds).out
  \o validateSkillCoverage(ds).out \o validateWorkerCapacity(ds).out
  \o validatePhaseConstraints(ds).out \o generateAiInsights(ds).out

HasCategory(res, category) == \E j \in 1..Len(res) : res[j].category = category

\* C2: a run that publishes has executed all ten checks in the catalogue order
\* whatever the earlier checks found: the findings of a run, at any moment, are
\* in the order of their checks, and the list a run publishes from records that
\* were not written meanwhile is the findings of the ten checks one after the
\* other, behind the success finding if there is one.
C2_CatalogOrder ==
  \A r \in 1..Len(runs) :
    /\ InCatalogOrder(CheckFindings(runs[r].results))
    /\ runs[r].status = "running" =>
         \A j \in 1..Len(runs[r].results) :
           CheckOf(runs[r].results[j].category) <= runs[r].i
    /\ (runs[r].status = "done" /\ ~runs[r].dirty) =>
         CheckFindings(runs[r].results) = CatalogFindings(runs[r].data0)

\* C2 witness: a published list holds a critical finding of the third check and
\* findings of the fourth and of the sixth.
C2_Witness ==
  \E r \in 1..Len(runs) :
    /\ runs[r].status = "done"
    /\ ~runs[r].dirty
    /\ HasCategory(runs[r].results, "Duplicate IDs")
    /\ HasCategory(runs[r].results, "Invalid Range")
    /\ HasCategory(runs[r].results, "Invalid Reference")

\* C3: no check raises an exception that aborts the run, whatever the records
\* hold: no started run ends by an exception.
C3_NoRunAborted ==
  \A r \in 1..Len(runs) : runs[r].status # "threw"

\* C4: the records a run reads do not change while it is in progress, even when
\* a cell is saved in the grid meanwhile.
C4_SnapshotImmutable ==
  [][\A r \in 1..Len(runs) :
       runs[r].status = "running" => runs'[r].data = runs[r].data]_vars

CleanlyDone(run) == run.status = "done" /\ ~run.dirty

\* C5: two runs over the same collections, neither written during the run,
\* publish identical lists, whatever ran before them and however their delays
\* interleave.
C5_Idempotent ==
  \A r1, r2 \in 1..Len(runs) :
    (CleanlyDone(runs[r1]) /\ CleanlyDone(runs[r2]) /\ runs[r1].data0 = runs[r2].data0)
      => runs[r1].results = runs[r2].results

\* C5 witness: a second run over the same collections has published a list with
\* findings of the checks, and a list was on display when it started.
C5_Witness ==
  \E r1, r2 \in 1..Len(runs) :
    /\ r1 < r2
    /\ CleanlyDone(runs[r1]) /\ CleanlyDone(runs[r2])
    /\ runs[r1].data0 = runs[r2].data0
    /\ Len(CheckFindings(runs[r2].results)) > 0

\* the skills a cell names: the items of a comma-separated text or of a list
NamedSkills(cell) ==
  IF cell.k = "str" THEN {Trim(piece) : piece \in Range(Split(cell.s))} \ {<<>>}
  ELSE IF cell.k = "list" THEN {Trim(ItemToStr(item)) : item \in Range(cell.l)} \ {<<>>}
  ELSE IF Truthy(cell) THEN {ToStr(cell)}
  ELSE {}

UncoveredSkills(ds) ==
  UNION {NamedSkills(ds.tasks[i].RequiredSkills) : i \in 1..Len(ds.tasks)}
  \ UNION {NamedSkills(ds.workers[i].Skills) : i \in 1..Len(ds.workers)}

WithCategory(res, category) ==
  LET Is(f) == f.category = category IN SelectSeq(res, Is)

At(res, coll, i) ==
  LET Is(f) == f.coll = coll /\ f.idx = <<i - 1>> IN SelectSeq(res, Is)

SkillCoverageRule(uncovered, fs) ==
  IF uncovered = {} THEN Len(fs) = 0
  ELSE /\ Len(fs) = 1
       /\ fs[1].type = "error" /\ fs[1].severity = "critical"
       /\ uncovered \subseteq Range(fs[1].msg)

\* C6: a run that has ended has emitted exactly one critical Skill Coverage error
\* listing every skill some task requires and no worker has, and no Skill
\* Coverage finding when every required skill is covered.
C6_SkillCoverage ==
  \A r \in 1..Len(runs) :
    Ended(runs[r]) =>
      SkillCoverageRule(UncoveredSkills(runs[r].data0),
                        WithCategory(Published(runs[r]), "Skill Coverage"))

IdField == [clients |-> "ClientID", workers |-> "WorkerID", tasks |-> "TaskID"]

IsIdValue(cell) == cell.k \notin {"undef", "null"} /\ cell # Str(<<>>)

\* the ID values held by more than one record
RepeatedIds(rows, idField) ==
  {rows[i][idField] : i \in {i \in 1..Len(rows) :
      /\ IsIdValue(rows[i][idField])
      /\ \E j \in 1..Len(rows) : j # i /\ rows[j][idField] = rows[i][idField]}}

DuplicateIdsRule(repeated, fs) ==
  IF repeated = {} THEN Len(fs) = 0
  ELSE /\ Len(fs) = 1
       /\ fs[1].type = "error" /\ fs[1].severity = "critical"
       /\ Len(fs[1].msg) = 1 + Cardinality(repeated)
       /\ \A id \in repeated : ToStr(id) \in Range(Tail(fs[1].msg))

OfCollection(res, coll) ==
  LET Is(f) == f.coll = coll IN SelectSeq(res, Is)

\* C7: for each collection a published list holds exactly one critical Duplicate
\* IDs error, listing every repeated ID value once, when some ID value is held by
\* more than one record, and none when the ID values are pairwise distinct; 0 is
\* an ID value like any other.
C7_DuplicateIds ==
  \A r \in 1..Len(runs) : \A c \in 1..Len(Collections) :
    runs[r].status = "done" =>
      DuplicateIdsRule(RepeatedIds(runs[r].data0[Collections[c]], IdField[Collections[c]]),
                       OfCollection(WithCategory(runs[r].results, "Duplicate IDs"),
                                    Collections[c]))

\* a cell that holds an integer: a number without a fraction, or its text
IsInteger(cell) ==
  \/ cell.k = "num" /\ cell.f = 0
  \/ /\ cell.k = "str" /\ Trim(cell.s) # <<>>
     /\ ~StrToNumber(cell.s).nan /\ StrToNumber(cell.s).f = 0

IntegerOf(cell) == IF cell.k = "num" THEN cell.n ELSE StrToNumber(cell.s).n

RangeRule(inRange, fs) ==
  IF inRange THEN Len(fs) = 0
  ELSE Len(fs) = 1 /\ fs[1].type = "error" /\ fs[1].severity = "high"

RangeFindings(res, coll, i) == At(WithCategory(res, "Invalid Range"), coll, i)

PriorityInRange(cell) == IsInteger(cell) /\ IntegerOf(cell) >= 1 /\ IntegerOf(cell) <= 5

AtLeastOne(cell) == IsInteger(cell) /\ IntegerOf(cell) >= 1

\* C8: a published list holds exactly one high Invalid Range error for a client
\* whose PriorityLevel is not an integer in [1,5], for a task whose Duration is
\* not an integer >= 1 and for a worker whose MaxLoadPerPhase is not an integer
\* >= 1, and none for any other record; fractional numbers and text with a
\* numeric prefix are not integers.
C8_RangeEnforcement ==
  \A r \in 1..Len(runs) :
    runs[r].status = "done" =>
      /\ \A i \in 1..Len(runs[r].data0.clients) :
           RangeRule(PriorityInRange(runs[r].data0.clients[i].PriorityLevel),
                     RangeFindings(runs[r].results, "clients", i))
      /\ \A i \in 1..Len(runs[r].data0.tasks) :
           RangeRule(AtLeastOne(runs[r].data0.tasks[i].Duration),
                     RangeFindings(runs[r].results, "tasks", i))
      /\ \A i \in 1..Len(runs[r].data0.workers) :
           RangeRule(AtLeastOne(runs[r].data0.workers[i].MaxLoadPerPhase),
                     RangeFindings(runs[r].results, "workers", i))

IsPresent(cell) == cell.k \notin {"undef", "null"} /\ cell # Str(<<>>)

Unparseable(cell) == cell.k = "str" /\ ~JsonParse(cell.s).ok

BrokenJsonRule(broken, fs) ==
  IF broken THEN Len(fs) = 1 /\ fs[1].type = "error" /\ fs[1].severity = "medium"
  ELSE Len(fs) = 0

\* C9: a published list holds exactly one medium Broken JSON error for a client
\* whose AttributesJSON is present and does not parse as JSON, and none for a
\* client whose AttributesJSON parses, is an object or is absent.
C9_BrokenJson ==
  \A r \in 1..Len(runs) :
    runs[r].status = "done" =>
      \A i \in 1..Len(runs[r].data0.clients) :
        BrokenJsonRule(IsPresent(runs[r].data0.clients[i].AttributesJSON)
                         /\ Unparseable(runs[r].data0.clients[i].AttributesJSON),
                       At(WithCategory(runs[r].results, "Broken JSON"), "clients", i))

\* a bracketed text that is not valid JSON
FailsToCoerce(cell) ==
  /\ cell.k = "str"
  /\ Len(cell.s) >= 2 /\ cell.s[1] = "[" /\ cell.s[Len(cell.s)] = "]"
  /\ ~JsonParse(cell.s).ok

Surfaced(cell, fs) ==
  FailsToCoerce(cell) => parseArrayField(cell) = <<>> /\ Len(fs) > 0

\* C10: when a worker's AvailableSlots or a task's PreferredPhases fails to
\* coerce to a list, the coercer returns the empty list and the published list
\* holds a finding for that record.
C10_MalformedListSurfaced ==
  \A r \in 1..Len(runs) :
    runs[r].status = "done" =>
      /\ \A i \in 1..Len(runs[r].data0.workers) :
           Surfaced(runs[r].data0.workers[i].AvailableSlots,
                    At(runs[r].results, "workers", i))
      /\ \A i \in 1..Len(runs[r].data0.tasks) :
           Surfaced(runs[r].data0.tasks[i].PreferredPhases,
                    At(runs[r].results, "tasks", i))

---------------------------------------------------------------------------
(* The condition executor of NaturalLanguageSearch.  A record of a search   *)
(* is a function from its own keys to cells; a condition is                 *)
(* [field, operator, value, type], value being a cell.  Text is compared    *)
(* atom by atom: includes() is the containment of a run of atoms.           *)

Condition(field, operator, value, type) ==
  [field |-> field, operator |-> operator, value |-> value, type |-> type]

\* path.split("."): the keys of a field path
PathKeys(field) ==
  CASE field = "AttributesJSON.budget"   -> <<"AttributesJSON", "budget">>
    [] field = "AttributesJSON.location" -> <<"AttributesJSON", "location">>
    [] field = "AttributesJSON.vip"      -> <<"AttributesJSON", "vip">>
    [] field = "AttributesJSON.sla"      -> <<"AttributesJSON", "sla">>
    [] OTHER -> <<field>>

\* key.includes("JSON")
KeyNamesJson(key) == key \in {"AttributesJSON"}

\* item[key]
Property(item, key) == IF key \in DOMAIN item THEN item[key] ELSE Undef

\* the members of the one-level object text s, as <<key, value>> pairs
ObjectMembers(s) ==
  LET t == Trim(s)
      inner == Trim(SubSeq(t, 2, Len(t) - 1))
      parts == IF inner = <<>> THEN <<>> ELSE Split(inner)
      Colon(m) == CHOOSE i \in 1..Len(m) : m[i] = ":" /\ \A j \in 1..(i-1) : m[j] # ":"
      Key(m) == Trim(SubSeq(m, 1, Colon(m) - 1))
  IN [i \in 1..Len(parts) |->
        <<SubSeq(Key(parts[i]), 2, Len(Key(parts[i])) - 1),
          JsonScalar(Trim(SubSeq(parts[i], Colon(parts[i]) + 1, Len(parts[i])))).v>>]

\* parsed[key] of the object JSON.parse(s) gave: the last member of that name
MemberOf(s, key) ==
  LET members == ObjectMembers(s)
      at == {i \in 1..Len(members) : members[i][1] = <<key>>}
  IN IF at = {} THEN Undef
     ELSE members[CHOOSE i \in at : \A j \in at : j <= i][2]

\* getNestedValue(obj, path) for a path of one or two keys
getNestedValue(item, field) ==
  LET keys == PathKeys(field)
      first == Property(item, keys[1])
      parses == KeyNamesJson(keys[1]) /\ first.k = "str" /\ JsonParse(first.s).ok
  IN IF Len(keys) = 1
     THEN IF parses THEN JsonParse(first.s).v ELSE first
     ELSE IF parses /\ JsonParse(first.s).v.k = "obj" THEN MemberOf(first.s, keys[2])
     ELSE Undef

\* reverseMappings[field] for the header mappings <<original, mapped>>, entered
\* in this order: the last original name mapped to `field`, "" when none
ReverseMapping(mappings, field) ==
  LET at == {i \in 1..Len(mappings) : mappings[i][2] = field}
  IN IF at = {} THEN "" ELSE mappings[CHOOSE i \in at : \A j \in at : j <= i][1]

\* the alternative spellings executeSearch tries for a field
AlternativeFields(field) ==
  CASE field = "PriorityLevel"      -> <<"Priori", "Priority", "priority", "priorityLevel">>
    [] field = "ClientName"         -> <<"Name", "name", "clientName">>
    [] field = "WorkerName"         -> <<"Name", "name", "workerName">>
    [] field = "TaskName"           -> <<"Name", "name", "taskName">>
    [] field = "ClientID"           -> <<"ID", "id", "clientId">>
    [] field = "WorkerID"           -> <<"ID", "id", "workerId">>
    [] field = "TaskID"             -> <<"ID", "id", "taskId">>
    [] field = "GroupTag"           -> <<"Group", "group", "groupTag">>
    [] field = "WorkerGroup"        -> <<"Group", "group", "workerGroup">>
    [] field = "Skills"             -> <<"skills", "skill">>
    [] field = "RequiredSkills"     -> <<"RequiredSkill", "requiredSkill", "skills", "skill">>
    [] field = "AvailableSlots"     -> <<"Slots", "slots", "availableSlots">>
    [] field = "PreferredPhases"    -> <<"Phases", "phases", "preferredPhases">>
    [] field = "RequestedTaskIDs"   -> <<"RequestedTasks", "requestedTasks", "tasks">>
    [] field = "Duration"           -> <<"duration">>
    [] field = "MaxConcurrent"      -> <<"maxConcurrent", "concurrent">>
    [] field = "MaxLoadPerPhase"    -> <<"MaxLoad", "maxLoad", "load">>
    [] field = "QualificationLevel" -> <<"Qualification", "qualification", "level">>
    [] field = "AttributesJSON"     -> <<"AttributesJSON">>
    [] OTHER -> <<>>

\* the first of the values that is not undefined, else `otherwise`
FirstDefined(values, otherwise) ==
  LET found == {i \in 1..Len(values) : values[i] # Undef}
  IN IF found # {}
     THEN values[CHOOSE i \in found : \A j \in found : i <= j]
     ELSE otherwise

\* the names executeSearch looks a field up under, in its order
LookupNames(original, field) ==
  (IF original # "" THEN <<original>> ELSE <<>>) \o <<field>> \o AlternativeFields(field)

LookupValues(item, names) == [i \in 1..Len(names) |-> getNestedValue(item, names[i])]

\* the value executeSearch settles on for a condition's field: through the
\* reverse mapping, then the name as it is, then the alternatives
FieldValue(item, field, mappings) ==
  FirstDefined(LookupValues(item, LookupNames(ReverseMapping(mappings, field), field)),
               Property(item, field))

\* a numeric result as a count of tenths, for comparisons
InTenths(v) == 10 * v.n + v.f

\* the comparison with its sides exchanged
NumericHoldsSwapped(operator, a, b) ==
  CASE operator = ">"  -> InTenths(b) > InTenths(a)
    [] operator = "<"  -> InTenths(b) < InTenths(a)
    [] operator \in {"=", "==", "==="} -> InTenths(a) = InTenths(b)
    [] operator = ">=" -> InTenths(b) >= InTenths(a)
    [] operator = "<=" -> InTenths(b) <= InTenths(a)
    [] OTHER -> FALSE

NumericHolds(operator, a, b) ==
  CASE operator = ">"  -> InTenths(a) > InTenths(b)
    [] operator = "<"  -> InTenths(a) < InTenths(b)
    [] operator \in {"=", "==", "==="} -> InTenths(a) = InTenths(b)
    [] operator = ">=" -> InTenths(a) >= InTenths(b)
    [] operator = "<=" -> InTenths(a) <= InTenths(b)
    [] OTHER -> FALSE

UpperWords == <<"Python", "SQL", "Acme", "T1", "T2", "Build", "Deploy", "Senior">>
LowerWords == <<"python", "sql", "acme", "t1", "t2", "build", "deploy", "senior">>

\* String.prototype.toLowerCase, on the words of the model
ToLowerCase(s) ==
  [i \in 1..Len(s) |->
     IF \E j \in 1..Len(UpperWords) : UpperWords[j] = s[i]
     THEN LowerWords[CHOOSE j \in 1..Len(UpperWords) : UpperWords[j] = s[i]]
     ELSE s[i]]

\* String.prototype.includes
Includes(s, part) ==
  \E i \in 0..(Len(s) - Len(part)) : SubSeq(s, i + 1, i + Len(part)) = part

\* String(fieldValue || "").toLowerCase()
SearchText(cell) == ToLowerCase(IF Truthy(cell) THEN ToStr(cell) ELSE <<>>)

\* condition.value.some(val => arrayValue.includes(Number(val)) ||
\* arrayValue.includes(String(val)))
SomeIncluded(values, arrayValue) ==
  \E i \in 1..Len(values) :
    \/ /\ ~ToNumber(values[i]).nan
       /\ Frac(ToNumber(values[i]).n, ToNumber(values[i]).f) \in Range(arrayValue)
    \/ Str(ToStr(values[i])) \in Range(arrayValue)

\* the outcome of one condition on a field value that was found: "true",
\* "false", or "throw" where condition.value.some is not a function
ConditionOutcome(fieldValue, condition) ==
  LET Bit(b) == IF b THEN "true" ELSE "false"
  IN CASE condition.type = "numeric" ->
            Bit(/\ ~ToNumber(fieldValue).nan
                /\ ~ToNumber(condition.value).nan
                /\ NumericHolds(condition.operator, ToNumber(fieldValue),
                                ToNumber(condition.value)))
       [] condition.type = "string" ->
            IF condition.operator \in {"=", "==", "==="}
            THEN Bit(SearchText(fieldValue) = ToLowerCase(ToStr(condition.value)))
            ELSE Bit(Includes(SearchText(fieldValue), ToLowerCase(ToStr(condition.value))))
       [] condition.type = "array" ->
            IF condition.operator # "in" THEN "false"
            ELSE IF condition.value.k # "list" THEN "throw"
            ELSE Bit(SomeIncluded(condition.value.l, parseArrayField(fieldValue)))
       [] condition.type = "boolean" ->
            Bit(Truthy(fieldValue) = Truthy(condition.value))
       [] OTHER -> "true"

\* the outcome of one condition on the value settled for its field; `missing`
\* when that value is undefined or null
FoundOutcome(fieldValue, condition, missing) ==
  IF fieldValue.k \in {"undef", "null"} THEN missing
  ELSE ConditionOutcome(fieldValue, condition)

\* an evaluation in which a field that is undefined or null matches anything
EvaluateWildcard(item, condition, mappings) ==
  FoundOutcome(FieldValue(item, condition.field, mappings), condition, "true")

\* one condition on one record: a field that is undefined or null is false
Evaluate(item, condition, mappings) ==
  FoundOutcome(FieldValue(item, condition.field, mappings), condition, "false")

\* the first of the outcomes that is not true, "true" when all are
FirstNotTrue(outcomes) ==
  LET at == {i \in 1..Len(outcomes) : outcomes[i] # "true"}
  IN IF at = {} THEN "true" ELSE outcomes[CHOOSE i \in at : \A j \in at : i <= j]

\* the records whose outcome is true, in their order
RECURSIVE KeptRecords(_, _)
KeptRecords(data, outcomes) ==
  IF data = <<>> THEN <<>>
  ELSE (IF Head(outcomes) = "true" THEN <<Head(data)>> ELSE <<>>)
       \o KeptRecords(Tail(data), Tail(outcomes))

\* data.filter(...) from the outcome of the callback on each record
FilterOutcome(data, outcomes) ==
  [threw |-> \E i \in 1..Len(outcomes) : outcomes[i] = "throw",
   results |-> KeptRecords(data, outcomes)]

\* conditions.every(...): the outcome of the first condition that is not true
Every(item, conditions, mappings) ==
  FirstNotTrue([c \in 1..Len(conditions) |-> Evaluate(item, conditions[c], mappings)])

\* executeSearch: the records every condition holds on, in their order; threw
\* when a condition raised
executeSearch(data, conditions, mappings) ==
  FilterOutcome(data, [i \in 1..Len(data) |-> Every(data[i], conditions, mappings)])

\* the executor of the search component without External Assist: one lookup,
\* no test for a missing value, the condition value compared as it is
PlainOutcome(fieldValue, condition) ==
  LET Bit(b) == IF b THEN "true" ELSE "false"
  IN CASE condition.type = "numeric" ->
            Bit(/\ ~ToNumber(fieldValue).nan
                /\ ~ToNumber(condition.value).nan
                /\ condition.operator \in {">", "<", "="}
                /\ (condition.operator = "=" => condition.value.k = "num")
                /\ NumericHolds(condition.operator, ToNumber(fieldValue),
                                ToNumber(condition.value)))
       [] condition.type = "string" ->
            IF condition.operator = "contains"
            THEN Bit(Includes(SearchText(fieldValue), ToLowerCase(ToStr(condition.value))))
            ELSE Bit(SearchText(fieldValue) = ToLowerCase(ToStr(condition.value)))
       [] condition.type = "array" ->
            IF condition.operator # "in" THEN "false"
            ELSE IF condition.value.k # "list" THEN "throw"
            ELSE Bit(\E i \in 1..Len(condition.value.l) :
                       condition.value.l[i] \in Range(parseArrayField(fieldValue)))
       [] OTHER -> "true"

PlainEvery(item, conditions) ==
  FirstNotTrue([c \in 1..Len(conditions) |->
                  PlainOutcome(getNestedValue(item, conditions[c].field), conditions[c])])

executeSearchPlain(data, conditions) ==
  FilterOutcome(data, [i \in 1..Len(data) |-> PlainEvery(data[i], conditions)])

---------------------------------------------------------------------------
(* The condition parser.  A query is a sequence of words separated by one   *)
(* blank: words of letters, one-digit numerals, and the mixed words of      *)
(* MixedWords; it holds no punctuation.  On such text every pattern of the  *)
(* parsers matches whole words, and a match is found as the regex engine    *)
(* finds it: leftmost start, optional parts and repetitions greedy.         *)

MixedWords == {"t1", "t2"}
IsNumeral(w) == IsDigit(w)
IsLetters(w) == w # "" /\ ~IsNumeral(w) /\ w \notin MixedWords

\* the word at position i, "" outside the query
WordAt(words, i) == IF i \in 1..Len(words) THEN words[i] ELSE ""

\* words i..j are all words of letters
LettersRun(words, i, j) == \A k \in i..j : IsLetters(WordAt(words, k))

\* the text of a run of words, as one string
RECURSIVE Phrase(_, _)
Phrase(ws, sep) ==
  IF ws = <<>> THEN ""
  ELSE IF Len(ws) = 1 THEN ws[1]
  ELSE ws[1] \o sep \o Phrase(Tail(ws), sep)

\* the text of a run of words, as a cell
TextOf(ws) ==
  Str([i \in 1..(2 * Len(ws) - 1) |-> IF i % 2 = 1 THEN ws[(i + 1) \div 2] ELSE " "])

\* table[key] of an object literal given as <<key, value>> pairs, "" when absent
Lookup(table, key) ==
  IF \E i \in 1..Len(table) : table[i][1] = key
  THEN table[CHOOSE i \in 1..Len(table) :
               table[i][1] = key /\ \A j \in (i+1)..Len(table) : table[j][1] # key][2]
  ELSE ""

universalFieldMappings ==
  [clients |->
     <<<<"priority level", "PriorityLevel">>, <<"prioritylevel", "PriorityLevel">>,
       <<"priority", "PriorityLevel">>, <<"importance", "PriorityLevel">>,
       <<"client name", "ClientName">>, <<"clientname", "ClientName">>,
       <<"name", "ClientName">>, <<"company", "ClientName">>,
       <<"organization", "ClientName">>, <<"client id", "ClientID">>,
       <<"clientid", "ClientID">>, <<"id", "ClientID">>, <<"group", "GroupTag">>,
       <<"group tag", "GroupTag">>, <<"grouptag", "GroupTag">>,
       <<"category", "GroupTag">>, <<"team", "GroupTag">>,
       <<"requested tasks", "RequestedTaskIDs">>, <<"requestedtasks", "RequestedTaskIDs">>,
       <<"tasks", "RequestedTaskIDs">>, <<"requirements", "RequestedTaskIDs">>,
       <<"budget", "AttributesJSON.budget">>, <<"cost", "AttributesJSON.budget">>,
       <<"spending", "AttributesJSON.budget">>, <<"price", "AttributesJSON.budget">>,
       <<"location", "AttributesJSON.location">>, <<"city", "AttributesJSON.location">>,
       <<"region", "AttributesJSON.location">>, <<"vip", "AttributesJSON.vip">>,
       <<"premium", "AttributesJSON.vip">>, <<"important", "AttributesJSON.vip">>,
       <<"sla", "AttributesJSON.sla">>, <<"service level", "AttributesJSON.sla">>>>,
   workers |->
     <<<<"skills", "Skills">>, <<"skill", "Skills">>, <<"expertise", "Skills">>,
       <<"capabilities", "Skills">>, <<"competencies", "Skills">>,
       <<"technologies", "Skills">>, <<"available slots", "AvailableSlots">>,
       <<"availableslots", "AvailableSlots">>, <<"slots", "AvailableSlots">>,
       <<"availability", "AvailableSlots">>, <<"phases", "AvailableSlots">>,
       <<"max load", "MaxLoadPerPhase">>, <<"maxload", "MaxLoadPerPhase">>,
       <<"load", "MaxLoadPerPhase">>, <<"capacity", "MaxLoadPerPhase">>,
       <<"workload", "MaxLoadPerPhase">>, <<"worker group", "WorkerGroup">>,
       <<"workergroup", "WorkerGroup">>, <<"group", "WorkerGroup">>,
       <<"team", "WorkerGroup">>, <<"department", "WorkerGroup">>,
       <<"qualification", "QualificationLevel">>, <<"level", "QualificationLevel">>,
       <<"experience", "QualificationLevel">>, <<"seniority", "QualificationLevel">>,
       <<"rank", "QualificationLevel">>, <<"worker name", "WorkerName">>,
       <<"workername", "WorkerName">>, <<"name", "WorkerName">>,
       <<"employee", "WorkerName">>, <<"worker id", "WorkerID">>,
       <<"workerid", "WorkerID">>, <<"id", "WorkerID">>, <<"employeeid", "WorkerID">>>>,
   tasks |->
     <<<<"duration", "Duration">>, <<"length", "Duration">>, <<"time", "Duration">>,
       <<"period", "Duration">>, <<"timeframe", "Duration">>,
       <<"required skills", "RequiredSkills">>, <<"requiredskills", "RequiredSkills">>,
       <<"skills", "RequiredSkills">>, <<"requirements", "RequiredSkills">>,
       <<"needs", "RequiredSkills">>, <<"technologies", "RequiredSkills">>,
       <<"preferred phases", "PreferredPhases">>, <<"preferredphases", "PreferredPhases">>,
       <<"phases", "PreferredPhases">>, <<"timing", "PreferredPhases">>,
       <<"schedule", "PreferredPhases">>, <<"when", "PreferredPhases">>,
       <<"max concurrent", "MaxConcurrent">>, <<"maxconcurrent", "MaxConcurrent">>,
       <<"concurrent", "MaxConcurrent">>, <<"parallel", "MaxConcurrent">>,
       <<"simultaneous", "MaxConcurrent">>, <<"category", "Category">>,
       <<"type", "Category">>, <<"kind", "Category">>, <<"classification", "Category">>,
       <<"task name", "TaskName">>, <<"taskname", "TaskName">>, <<"name", "TaskName">>,
       <<"title", "TaskName">>, <<"description", "TaskName">>, <<"task id", "TaskID">>,
       <<"taskid", "TaskID">>, <<"id", "TaskID">>, <<"priority", "Priority">>,
       <<"importance", "Priority">>, <<"urgency", "Priority">>,
       <<"criticality", "Priority">>>>]

\* the fallback table of the numeric patterns
universalMappings(activeDataType) ==
  <<<<"priority", "PriorityLevel">>, <<"level", "PriorityLevel">>,
    <<"importance", "PriorityLevel">>,
    <<"name", CASE activeDataType = "clients" -> "ClientName"
                [] activeDataType = "workers" -> "WorkerName"
                [] OTHER -> "TaskName">>,
    <<"id", CASE activeDataType = "clients" -> "ClientID"
              [] activeDataType = "workers" -> "WorkerID"
              [] OTHER -> "TaskID">>,
    <<"duration", "Duration">>, <<"time", "Duration">>, <<"length", "Duration">>,
    <<"skills", IF activeDataType = "workers" THEN "Skills" ELSE "RequiredSkills">>,
    <<"group", IF activeDataType = "clients" THEN "GroupTag" ELSE "WorkerGroup">>,
    <<"phases", IF activeDataType = "workers" THEN "AvailableSlots" ELSE "PreferredPhases">>,
    <<"load", "MaxLoadPerPhase">>, <<"capacity", "MaxLoadPerPhase">>,
    <<"concurrent", "MaxConcurrent">>, <<"parallel", "MaxConcurrent">>,
    <<"category", "Category">>, <<"type", "Category">>,
    <<"qualification", "QualificationLevel">>, <<"experience", "QualificationLevel">>>>

\* the comparator phrases of the first numeric pattern, in the order of its
\* alternation, with operatorMappings[phrase]
ComparatorPhrases ==
  <<<<<<"greater", "than">>, ">">>, <<<<"more", "than">>, ">">>,
    <<<<"higher", "than">>, ">">>, <<<<"above">>, ">">>, <<<<"over">>, ">">>,
    <<<<"exceeds">>, ">">>, <<<<"beyond">>, ">">>, <<<<"less", "than">>, "<">>,
    <<<<"fewer", "than">>, "<">>, <<<<"lower", "than">>, "<">>, <<<<"below">>, "<">>,
    <<<<"under">>, "<">>, <<<<"within">>, "<">>, <<<<"equal", "to">>, "=">>,
    <<<<"equals">>, "=">>, <<<<"is">>, "=">>, <<<<"matches">>, "=">>,
    <<<<"exactly">>, "=">>, <<<<"same", "as">>, "=">>, <<<<"at", "least">>, ">=">>,
    <<<<"minimum">>, ">=">>, <<<<"min">>, ">=">>, <<<<"at", "most">>, "<=">>,
    <<<<"maximum">>, "<=">>, <<<<"max">>, "<=">>,
    <<<<"greater", "than", "or", "equal">>, ">=">>,
    <<<<"less", "than", "or", "equal">>, "<=">>>>

\* the comparators that stand at word i with a numeral right behind them
ComparatorsAt(phrases, words, i) ==
  {c \in 1..Len(phrases) :
     /\ i >= 1 /\ i + Len(phrases[c][1]) - 1 <= Len(words)
     /\ SubSeq(words, i, i + Len(phrases[c][1]) - 1) = phrases[c][1]
     /\ IsNumeral(WordAt(words, i + Len(phrases[c][1])))}

FirstOf(set) == CHOOSE x \in set : \A y \in set : x <= y
LastOf(set) == CHOOSE x \in set : \A y \in set : y <= x


\* the field a numeric pattern maps a field name to, "" for none: the table of
\* the active data type under the name and under the name without its blanks,
\* then the fallback table under the name and under its last word
MappedField(activeDataType, name) ==
  LET table == universalFieldMappings[activeDataType]
      fallback == universalMappings(activeDataType)
  IN  IF Lookup(table, Phrase(name, " ")) # "" THEN Lookup(table, Phrase(name, " "))
      ELSE IF Lookup(table, Phrase(name, "")) # "" THEN Lookup(table, Phrase(name, ""))
      ELSE IF Lookup(fallback, Phrase(name, " ")) # ""
           THEN Lookup(fallback, Phrase(name, " "))
      ELSE Lookup(fallback, name[Len(name)])

\* a match of a pattern: the words of the field name, the operator, the
\* value, and the position of the last word the match consumed
Match(name, operator, value, end) ==
  [name |-> name, operator |-> operator, value |-> value, end |-> end]

\* The ways the first numeric pattern can match from word s.  all, skip and
\* with say whether the optional "all", the optional word and the optional
\* "with" each consume a word; size is the number of words of the field name.
PrimaryWays(words, s) ==
  {w \in [all : 0..1, skip : 0..1, with : 0..1, size : 1..Len(words)] :
     LET from == s + w.all + w.skip + w.with
     IN  /\ w.all = 1 => WordAt(words, s) = "all"
         /\ w.skip = 1 => WordAt(words, s + w.all) # ""
         /\ w.with = 1 => WordAt(words, s + w.all + w.skip) = "with"
         /\ from + w.size <= Len(words)
         /\ LettersRun(words, from, from + w.size - 1)
         /\ ComparatorsAt(ComparatorPhrases, words, from + w.size) # {}}

\* the engine tries each optional part before leaving it out and the longest
\* field name first
Preference(w, n) == ((w.all * 2 + w.skip) * 2 + w.with) * (n + 1) + w.size

PrimaryMatch(words, s) ==
  LET ways == PrimaryWays(words, s)
  IN  IF ways = {} THEN <<>>
      ELSE LET w == CHOOSE x \in ways :
                      \A y \in ways :
                        Preference(y, Len(words)) <= Preference(x, Len(words))
               from == s + w.all + w.skip + w.with
               c == FirstOf(ComparatorsAt(ComparatorPhrases, words, from + w.size))
               at == from + w.size + Len(ComparatorPhrases[c][1])
           IN  <<Match(SubSeq(words, from, from + w.size - 1),
                       ComparatorPhrases[c][2], Num(DigitVal(words[at])), at)>>

\* second numeric pattern: a run of words of letters and the numeral behind
\* it; the run takes an "of" before the numeral into the field name
SecondaryMatch(words, s) ==
  LET ends == {e \in (s+1)..Len(words) :
                 IsNumeral(words[e]) /\ LettersRun(words, s, e - 1)}
  IN  IF ends = {} THEN <<>>
      ELSE <<Match(SubSeq(words, s, FirstOf(ends) - 1), "=",
                   Num(DigitVal(words[FirstOf(ends)])), FirstOf(ends))>>

\* third numeric pattern: one of four words, a numeral and one more word.
\* No word of a query ends in one of the four without being it.
TertiaryMatch(words, s) ==
  IF /\ WordAt(words, s) \in {"level", "phase", "priority", "duration"}
     /\ IsNumeral(WordAt(words, s + 1))
     /\ WordAt(words, s + 2) # ""
  THEN <<Match(<<words[s]>>, "=", Num(DigitVal(words[s + 1])), s + 2)>>
  ELSE <<>>

NumericMatch(patternIndex, words, s) ==
  CASE patternIndex = 0 -> PrimaryMatch(words, s)
    [] patternIndex = 1 -> SecondaryMatch(words, s)
    [] OTHER -> TertiaryMatch(words, s)

\* the loop over one numeric pattern from word pos on: the first match whose
\* field name maps gives the pattern's one condition
\* matches[s] is what the pattern matches from word s on
RECURSIVE NumericLoop(_, _, _)
NumericLoop(matches, activeDataType, pos) ==
  LET starts == {s \in pos..Len(matches) : matches[s] # <<>>}
  IN  IF starts = {} THEN <<>>
      ELSE LET m == matches[FirstOf(starts)][1]
           IN  IF MappedField(activeDataType, m.name) # ""
               THEN <<Condition(MappedField(activeDataType, m.name),
                                m.operator, m.value, "numeric")>>
               ELSE NumericLoop(matches, activeDataType, m.end + 1)

NumericConditions(words, activeDataType) ==
  Flatten([p \in 1..3 |->
             NumericLoop([s \in 1..Len(words) |-> NumericMatch(p - 1, words, s)],
                         activeDataType, 1)])


\* the matches a global pattern finds one after the other: of the places
\* where it can match, the leftmost at or after pos, then on from its end.
\* end[s] is the last word of the match that starts at s.
RECURSIVE MatchStarts(_, _, _)
MatchStarts(starts, end, pos) ==
  IF {s \in starts : s >= pos} = {} THEN <<>>
  ELSE LET s == FirstOf({x \in starts : x >= pos})
       IN  <<s>> \o MatchStarts(starts, end, end[s] + 1)

\* The string patterns.  The first reads "<field name> contains <text>": the
\* field name is the longest run of words of letters before one of its six
\* words, the text is the rest of the query.  The other four read a name that
\* is no key of universalFieldMappings, so what they match is dropped.
StringMatches(patternIndex, words, activeDataType) ==
  LET n == Len(words)
      skillsField == IF activeDataType = "workers" THEN "Skills" ELSE "RequiredSkills"
      at(keys) == {k \in 2..(n - 1) : words[k] \in keys}
      rest(k) == TextOf(SubSeq(words, k + 1, n))
  IN  CASE patternIndex = 0 ->
             LET pairs == {p \in (1..n) \X (2..(n - 1)) :
                             /\ p[1] < p[2]
                             /\ LettersRun(words, p[1], p[2] - 1)
                             /\ words[p[2]] \in {"contains", "includes", "has", "with",
                                                 "featuring", "having"}}
                 s == FirstOf({p[1] : p \in pairs})
                 k == LastOf({p[2] : p \in {q \in pairs : q[1] = s}})
             IN  IF pairs = {} THEN <<>>
                 ELSE <<<<Phrase(SubSeq(words, s, k - 1), " "), rest(k)>>>>
        [] patternIndex = 1 ->
             LET ks == at({"requiring", "needing", "requesting", "demanding"})
             IN  IF ks = {} THEN <<>> ELSE <<<<skillsField, rest(FirstOf(ks))>>>>
        [] patternIndex = 2 ->
             LET ks == at({"skilled", "experienced", "capable"})
             IN  IF ks = {} THEN <<>>
                 ELSE <<<<skillsField, TextOf(SubSeq(words, 1, LastOf(ks) - 1))>>>>
        [] patternIndex = 3 ->
             LET ks == {k \in 1..(n - 1) : words[k] \in {"named", "called", "titled"}}
             IN  IF ks = {} THEN <<>>
                 ELSE <<<<CASE activeDataType = "clients" -> "ClientName"
                            [] activeDataType = "workers" -> "WorkerName"
                            [] OTHER -> "TaskName",
                          rest(FirstOf(ks))>>>>
        [] OTHER ->
             LET ks == {k \in 1..(n - 1) : /\ words[k] \in {"in", "from", "of"}
                                           /\ words[k + 1] \in {"groupa", "teamb"}}
                 order == MatchStarts(ks, [k \in ks |-> k + 1], 1)
             IN  [i \in 1..Len(order) |->
                    <<IF activeDataType = "clients" THEN "GroupTag" ELSE "WorkerGroup",
                      TextOf(<<words[order[i] + 1]>>)>>]

\* the conditions of the matches whose field name maps
MappedStrings(ms, activeDataType) ==
  LET mapped(m) == Lookup(universalFieldMappings[activeDataType], m[1])
      kept == {i \in 1..Len(ms) : mapped(ms[i]) # ""}
      order == MatchStarts(kept, [i \in kept |-> i], 1)
  IN  [i \in 1..Len(order) |->
         Condition(mapped(ms[order[i]]), "contains", ms[order[i]][2], "string")]

StringConditions(patternIndex, words, activeDataType) ==
  MappedStrings(StringMatches(patternIndex, words, activeDataType), activeDataType)


\* The array patterns.  A list of numbers is read up to the blank behind its
\* last numeral: two numerals with only a blank between them are no number,
\* and an "and" behind the list is not reached.
ArrayConditions(patternIndex, words, activeDataType) ==
  LET n == Len(words)
      slots == {"phase", "phases", "slot", "slots"}
      behind(k) == {e \in k..n : \A j \in k..e : IsNumeral(words[j])}
      heads ==
        CASE patternIndex = 0 ->
               {k \in 1..(n - 2) : /\ words[k] \in {"in", "during", "within"}
                                   /\ words[k + 1] \in slots
                                   /\ IsNumeral(words[k + 2])}
          [] patternIndex = 1 ->
               {k \in 1..(n - 1) : words[k] \in slots /\ IsNumeral(words[k + 1])}
          [] patternIndex = 2 ->
               {k \in 1..(n - 2) : /\ words[k] \in {"requesting", "needing", "requiring"}
                                   /\ words[k + 1] \in {"task", "tasks"}
                                   /\ words[k + 2] \in MixedWords}
          [] OTHER ->
               {k \in 1..(n - 2) : /\ words[k] \in {"with", "having"}
                                   /\ words[k + 1] \in {"skill", "skills"}
                                   /\ IsLetters(words[k + 2])}
      first(k) == IF patternIndex = 1 THEN k + 1 ELSE k + 2
      last(k) == IF patternIndex <= 1 THEN LastOf(behind(first(k))) ELSE first(k)
      values(k) ==
        IF patternIndex <= 1
        THEN IF last(k) = first(k) THEN <<Num(DigitVal(words[first(k)]))>> ELSE <<>>
        ELSE <<TextOf(<<words[first(k)]>>)>>
      fieldName ==
        CASE patternIndex <= 1 ->
               IF activeDataType = "workers" THEN "AvailableSlots" ELSE "PreferredPhases"
          [] patternIndex = 2 -> "RequestedTaskIDs"
          [] OTHER -> IF activeDataType = "workers" THEN "Skills" ELSE "RequiredSkills"
      kept == {k \in heads : values(k) # <<>>}
      order == MatchStarts(kept, [k \in kept |-> last(k)], 1)
  IN  [i \in 1..Len(order) |->
         Condition(fieldName, "in", List(values(order[i])), "array")]

\* The boolean patterns: "<flag> <word>" and "<word> that|who|which are <flag>".
BooleanConditions(patternIndex, words) ==
  LET n == Len(words)
      starts ==
        IF patternIndex = 0
        THEN {k \in 1..(n - 1) :
                words[k] \in {"vip", "premium", "important", "critical", "urgent",
                              "active", "inactive"}}
        ELSE {k \in 1..(n - 3) :
                /\ words[k + 1] \in {"that", "who", "which"}
                /\ words[k + 2] = "are"
                /\ words[k + 3] \in {"vip", "premium", "senior", "junior", "active",
                                     "inactive"}}
      end == [k \in starts |-> IF patternIndex = 0 THEN k + 1 ELSE k + 3]
      order == MatchStarts(starts, end, 1)
      flag(i) == IF patternIndex = 0 THEN words[order[i]] ELSE words[order[i] + 3]
      fieldName(i) == CASE flag(i) \in {"vip", "premium"} -> "AttributesJSON.vip"
                        [] flag(i) = "senior" -> "QualificationLevel"
                        [] OTHER -> flag(i)
  IN  [i \in 1..Len(order) |->
         CASE flag(i) = "senior" ->
                Condition(fieldName(i), "=", Str(<<"Senior">>), "string")
           [] flag(i) = "junior" ->
                Condition(fieldName(i), "=", Str(<<"Junior">>), "string")
           [] OTHER -> Condition(fieldName(i), "=", Bool(TRUE), "boolean")]

\* parseNaturalLanguage of the search with assist
parseNaturalLanguage(words, activeDataType) ==
  NumericConditions(words, activeDataType)
    \o StringConditions(0, words, activeDataType)
    \o StringConditions(1, words, activeDataType)
    \o StringConditions(2, words, activeDataType)
    \o StringConditions(3, words, activeDataType)
    \o StringConditions(4, words, activeDataType)
    \o ArrayConditions(0, words, activeDataType)
    \o ArrayConditions(1, words, activeDataType)
    \o ArrayConditions(2, words, activeDataType)
    \o ArrayConditions(3, words, activeDataType)
    \o BooleanConditions(0, words)
    \o BooleanConditions(1, words)


---------------------------------------------------------------------------
(* The parser of the search without assist.  Each of its patterns opens     *)
(* with a greedy run of any words, so a pattern matches once: the run is    *)
(* the query up to the last place where the rest of the pattern fits.       *)

fieldMappings ==
  [clients |->
     <<<<"priority level", "PriorityLevel">>, <<"priority", "PriorityLevel">>,
       <<"client name", "ClientName">>, <<"name", "ClientName">>,
       <<"group", "GroupTag">>, <<"group tag", "GroupTag">>,
       <<"requested tasks", "RequestedTaskIDs">>, <<"tasks", "RequestedTaskIDs">>,
       <<"budget", "AttributesJSON.budget">>>>,
   workers |->
     <<<<"skills", "Skills">>, <<"skill", "Skills">>,
       <<"available slots", "AvailableSlots">>, <<"slots", "AvailableSlots">>,
       <<"phases", "AvailableSlots">>, <<"max load", "MaxLoadPerPhase">>,
       <<"load", "MaxLoadPerPhase">>, <<"worker group", "WorkerGroup">>,
       <<"group", "WorkerGroup">>, <<"qualification", "QualificationLevel">>,
       <<"level", "QualificationLevel">>, <<"name", "WorkerName">>>>,
   tasks |->
     <<<<"duration", "Duration">>, <<"required skills", "RequiredSkills">>,
       <<"skills", "RequiredSkills">>, <<"preferred phases", "PreferredPhases">>,
       <<"phases", "PreferredPhases">>, <<"max concurrent", "MaxConcurrent">>,
       <<"concurrent", "MaxConcurrent">>, <<"category", "Category">>,
       <<"name", "TaskName">>>>]

\* the comparator phrases of the first three numeric patterns
PlainComparators ==
  << <<<<<<"greater", "than">>, ">">>, <<<<"more", "than">>, ">">>,
       <<<<"above">>, ">">>, <<<<"over">>, ">">>>>,
     <<<<<<"less", "than">>, "<">>, <<<<"below">>, "<">>, <<<<"under">>, "<">>>>,
     <<<<<<"equal", "to">>, "=">>, <<<<"equals">>, "=">>, <<<<"is">>, "=">>>> >>

\* the one condition a pattern gives when its field name is a key of the
\* table of the active data type
PlainCondition(name, operator, value, type, activeDataType) ==
  LET mappedField == Lookup(fieldMappings[activeDataType], Phrase(name, " "))
  IN  IF mappedField = "" THEN <<>>
      ELSE <<Condition(mappedField, operator, value, type)>>

PlainNumeric(patternIndex, words, activeDataType) ==
  LET n == Len(words)
      lastNumeral == LastOf({e \in 2..n : IsNumeral(words[e])})
      phrases == PlainComparators[patternIndex + 1]
      ats == {q \in 2..n : ComparatorsAt(phrases, words, q) # {}}
      c == FirstOf(ComparatorsAt(phrases, words, LastOf(ats)))
  IN  IF patternIndex = 3
      THEN IF {e \in 2..n : IsNumeral(words[e])} = {} THEN <<>>
           ELSE PlainCondition(SubSeq(words, 1, lastNumeral - 1), "=",
                               Num(DigitVal(words[lastNumeral])), "numeric",
                               activeDataType)
      ELSE IF ats = {} THEN <<>>
           ELSE PlainCondition(SubSeq(words, 1, LastOf(ats) - 1), phrases[c][2],
                               Num(DigitVal(words[LastOf(ats) + Len(phrases[c][1])])),
                               "numeric", activeDataType)

PlainString(patternIndex, words, activeDataType) ==
  LET n == Len(words)
      keys == IF patternIndex = 0 THEN {"contains", "includes", "has", "with"}
              ELSE {"requesting", "requiring"}
      ks == {k \in 2..(n - 1) : words[k] \in keys}
  IN  IF ks = {} THEN <<>>
      ELSE PlainCondition(SubSeq(words, 1, LastOf(ks) - 1), "contains",
                          TextOf(SubSeq(words, LastOf(ks) + 1, n)), "string",
                          activeDataType)

\* the array patterns: the list read is the last numeral of the query; the
\* first pattern starts behind the first word that ends in "in"
PlainArray(patternIndex, words, activeDataType) ==
  LET n == Len(words)
      ins == {k \in 1..n : /\ words[k] \in {"in", "within"}
                           /\ \E e \in (k + 2)..n : IsNumeral(words[e])}
      from == IF patternIndex = 0 THEN FirstOf(ins) + 1 ELSE 1
      numerals == {e \in 2..n : IsNumeral(words[e])}
  IN  IF numerals = {} \/ (patternIndex = 0 /\ ins = {}) THEN <<>>
      ELSE PlainCondition(SubSeq(words, from, LastOf(numerals) - 1), "in",
                          List(<<Num(DigitVal(words[LastOf(numerals)]))>>), "array",
                          activeDataType)

\* parseNaturalLanguage of the search without assist
parseNaturalLanguagePlain(words, activeDataType) ==
  PlainNumeric(0, words, activeDataType) \o PlainNumeric(1, words, activeDataType)
    \o PlainNumeric(2, words, activeDataType) \o PlainNumeric(3, words, activeDataType)
    \o PlainString(0, words, activeDataType) \o PlainString(1, words, activeDataType)
    \o PlainArray(0, words, activeDataType) \o PlainArray(1, words, activeDataType)


---------------------------------------------------------------------------
(* The search and the rule converter on the page *)

\* the searches submitted in one behaviour
MaxSearches == 1

\* the records searched: with and without the field a condition names
HighClient == [ClientID |-> S("C1"), ClientName |-> S("Acme"), PriorityLevel |-> Num(4)]
LowClient  == [ClientID |-> S("C2"), ClientName |-> S("Acme"), PriorityLevel |-> Num(2)]
BareClient == [ClientID |-> S("C3"), ClientName |-> S("Acme")]
\* clients of a file whose PriorityLevel cell is empty, or holds one blank
BlankClient == [ClientID |-> S("C5"), ClientName |-> S("Acme"), PriorityLevel |-> Str(<<>>)]
SpaceClient == [ClientID |-> S("C6"), ClientName |-> S("Acme"), PriorityLevel |-> Str(<<" ">>)]
TextClient == [ClientID |-> S("C4"), priority |-> S("5"), AttributesJSON |-> BadJsonText]
SkilledWorker ==
  [WorkerID |-> S("W1"), Skills |-> Str(<<"Python", ",", "SQL">>),
   QualificationLevel |-> Num(4), AvailableSlots |-> SlotsText]
BareWorker == [WorkerID |-> S("W2"), WorkerName |-> S("Ann")]

\* the sentences typed into the search box
SearchQueries ==
  {<<"priority", "level", "greater", "than", "3">>,
   <<"all", "clients", "with", "priority", "level", "greater", "than", "3">>,
   <<"priority", "4">>,
   <<"level", "3", "clients">>,
   <<"skills", "contains", "python">>,
   <<"in", "phases", "2">>,
   <<"vip", "clients">>,
   <<"workers", "who", "are", "senior">>,
   <<"with", "skills", "python">>,
   <<"budget", "over", "5">>,
   <<"priority", "level", "less", "than", "3">>}

\* What the assist endpoint answers with.  ok: a 2xx status.  The body of a
\* 2xx answer has the members text, type and success; parsed says what its
\* text holds: "none" when no JSON can be read from it, "object" when the JSON
\* lacks the keys the caller reads, "partial" when an item of its list lacks
\* one, "answer" when it has them all; content is what the keys hold.
Reply(ok, parsed, content) == [ok |-> ok, parsed |-> parsed, content |-> content]
NoReply == Reply(FALSE, "none", <<>>)

SearchReplies ==
  {NoReply,
   Reply(TRUE, "none", <<>>),
   Reply(TRUE, "object", <<>>),
   Reply(TRUE, "answer", <<Condition("PriorityLevel", "<", S("3"), "numeric")>>),
   Reply(TRUE, "answer", <<Condition("ClientName", "contains", S("acme"), "string")>>),
   Reply(TRUE, "answer", <<Condition("ClientName", "contains", Num(3), "string")>>)}

\* data.response of a 2xx answer, as callGeminiAPI of the search and of the
\* converter read it: the body has no member of that name
ResponseMember(reply) == Undef

\* parsedResponse.conditions.map(...): the conditions of the answer, the value
\* of a numeric one through Number
AnswerConditions(content) ==
  [i \in 1..Len(content) |->
     LET c == content[i]
         number == ToNumber(c.value)
     IN  Condition(c.field, c.operator,
                   IF c.type # "numeric" THEN c.value
                   ELSE IF number.nan THEN S("NaN")
                   ELSE Frac(number.n, number.f),
                   c.type)]

\* the test of handleSearch that the answer is used: callGeminiAPI returned,
\* what it returned holds JSON, and the JSON has conditions
AssistUsed(reply) ==
  reply.ok /\ ResponseMember(reply) # Undef /\ reply.parsed = "answer"

\* handleSearch that keeps the empty list of conditions when the call fails
AssistConditionsNone(reply, words, activeDataType) == <<>>

\* handleSearch from the end of callGeminiAPI on: the conditions read from the
\* answer, or those of the local parser when the call threw, when what it
\* returned is neither an object nor a string, when no JSON was read from it
\* or when the JSON has no conditions
AssistConditions(reply, words, activeDataType) ==
  IF AssistUsed(reply) THEN AnswerConditions(reply.content)
  ELSE parseNaturalLanguage(words, activeDataType)

\* NaturalLanguageSearch as mounted: component says which of the two it is
SearchMounted(component, activeDataType, geminiApiKey) ==
  [phase |-> "idle", component |-> component, activeDataType |-> activeDataType,
   geminiApiKey |-> geminiApiKey, useGemini |-> FALSE, query |-> <<>>,
   sent |-> 0, reply |-> NoReply, answered |-> FALSE, parsedQuery |-> <<>>,
   results |-> <<>>, published |-> FALSE, aiEnhanced |-> FALSE, searches |-> 0]

\* the Gemini button of the search with assist, shown when there is a key
SetUseGemini ==
  /\ search.phase # "unmounted"
  /\ search.component = "assist"
  /\ search.geminiApiKey
  /\ search' = [search EXCEPT !.useGemini = ~@]
  /\ UNCHANGED <<dataSet, rowsId, activeTab, validationResults, isValidating,
                 validationProgress, currentStep, runs, uploads, edits, converter, builderVars, gridVars>>

\* handleSearch up to its await: the request to the assist endpoint when the
\* button is on and there is a key, the delay otherwise
handleSearch(words) ==
  LET assist == /\ search.component = "assist"
                /\ search.useGemini
                /\ search.geminiApiKey
  IN  /\ search.phase = "idle"
      /\ search.component \in {"assist", "plain"}
      /\ search.searches < MaxSearches
      /\ search' = [search EXCEPT !.phase = IF assist THEN "waiting" ELSE "delay",
                                  !.query = words,
                                  !.sent = IF assist THEN 1 ELSE 0,
                                  !.answered = FALSE,
                                  !.published = FALSE,
                                  !.searches = @ + 1]
      /\ UNCHANGED <<dataSet, rowsId, activeTab, validationResults, isValidating,
                     validationProgress, currentStep, runs, uploads, edits, converter, builderVars, gridVars>>

\* the rest of handleSearch: the conditions are shown, executed, and the
\* records found are handed to the grid unless the execution threw; the entry
\* of the search history says whether the conditions are those of the answer
SettleSearch(run, conditions, reply, answered) ==
  /\ search' = [search EXCEPT !.phase = "idle",
                              !.reply = reply,
                              !.answered = answered,
                              !.parsedQuery = conditions,
                              !.results = IF run.threw THEN @ ELSE run.results,
                              !.aiEnhanced = IF run.threw THEN @
                                             ELSE answered /\ AssistUsed(reply),
                              !.published = ~run.threw]
  /\ UNCHANGED <<dataSet, rowsId, activeTab, validationResults, isValidating,
                 validationProgress, currentStep, runs, uploads, edits, converter, builderVars, gridVars>>

\* the execution of the conditions by the executor of the component
FinishSearch(conditions, reply, answered) ==
  SettleSearch(IF search.component = "assist"
               THEN executeSearch(dataSet[search.activeDataType], conditions, <<>>)
               ELSE executeSearchPlain(dataSet[search.activeDataType], conditions),
               conditions, reply, answered)

\* the assist endpoint answers the request of handleSearch
AssistAnswers(reply) ==
  /\ search.phase = "waiting"
  /\ search.component = "assist"
  /\ FinishSearch(AssistConditions(reply, search.query, search.activeDataType),
                  reply, TRUE)

\* the delay of handleSearch elapses
SearchDelayElapses ==
  /\ search.phase = "delay"
  /\ FinishSearch(IF search.component = "assist"
                  THEN parseNaturalLanguage(search.query, search.activeDataType)
                  ELSE parseNaturalLanguagePlain(search.query, search.activeDataType),
                  NoReply, FALSE)


---------------------------------------------------------------------------
(* AIRuleConverter: the sentence of a rule, read character by character *)

UpperLetters == "ABCDEFGHIJKLMNOPQRSTUVWXYZ"
LowerLetters == "abcdefghijklmnopqrstuvwxyz"
DigitChars   == "0123456789"

\* the character of text at position i, "" outside it
CharAt(text, i) == IF i >= 1 /\ i <= Len(text) THEN SubSeq(text, i, i) ELSE ""

InChars(c, chars) == c # "" /\ \E i \in 1..Len(chars) : SubSeq(chars, i, i) = c

\* \d, [A-Z] under the i flag, \w and \s
IsDigitChar(c)  == InChars(c, DigitChars)
IsLetterChar(c) == InChars(c, UpperLetters) \/ InChars(c, LowerLetters)
IsWordChar(c)   == IsLetterChar(c) \/ IsDigitChar(c) \/ c = "_"
IsSpaceChar(c)  == c = " "

\* String.prototype.toLowerCase of a text
RECURSIVE LowerCase(_)
LowerCase(text) ==
  IF text = "" THEN ""
  ELSE IF Len(text) = 1
  THEN IF InChars(text, UpperLetters)
       THEN CharAt(LowerLetters,
                   CHOOSE i \in 1..Len(UpperLetters) : CharAt(UpperLetters, i) = text)
       ELSE text
  ELSE LowerCase(SubSeq(text, 1, Len(text) \div 2))
         \o LowerCase(SubSeq(text, Len(text) \div 2 + 1, Len(text)))

\* the positions where part begins in text
Starts(text, part) ==
  {i \in 1..(Len(text) - Len(part) + 1) : SubSeq(text, i, i + Len(part) - 1) = part}

\* String.prototype.includes of a text
Has(text, part) == Starts(text, part) # {}

\* the text of a cell that holds a string
CellText(cell) == Phrase(cell.s, "")

\* A regular expression of rulePatterns is a set of pairs <<first, then>>:
\* (?:a|b) is the pairs <<a, "">> and <<b, "">>, (?:a|b).*(?:c|d) the pairs of
\* an alternative of the first group and one of the second.
Alternatives(firsts) == {<<a, "">> : a \in firsts}
Followed(firsts, thens) == firsts \X thens

\* regex.test(input) under the i flag, lower being the sentence in lower case
Test(pairs, lower) ==
  \E pair \in pairs :
    IF pair[2] = "" THEN Has(lower, pair[1])
    ELSE \E i \in Starts(lower, pair[1]) :
           \E j \in Starts(lower, pair[2]) : j >= i + Len(pair[1])

Pattern(pairs, weight) == [pairs |-> pairs, weight |-> weight]

\* the weights and the confidence are in thousandths
rulePatterns ==
  <<[type |-> "coRun",
     patterns |->
       <<Pattern(Alternatives({"together", "same phase", "co-run", "run with",
                               "simultaneously"}), 900),
         Pattern(Followed({"must run", "should run", "need to run"},
                          {"together", "with"}), 800),
         Pattern(Followed({"link", "connect", "pair", "group"}, {"tasks"}), 700)>>],
    [type |-> "slotRestriction",
     patterns |->
       <<Pattern(Followed({"limit", "restrict", "maximum", "max"},
                          {"slot", "shared"}), 850),
         Pattern(Followed({"no more than", "at most"}, {"slot", "shared"}), 800),
         Pattern(Followed({"cap", "ceiling"}, {"slot", "allocation"}), 750)>>],
    [type |-> "loadLimit",
     patterns |->
       <<Pattern(Followed({"limit", "restrict", "maximum", "max"},
                          {"load", "task", "work"}), 850),
         Pattern(Followed({"no more than", "at most"}, {"task", "work", "load"}), 800),
         Pattern(Followed({"capacity", "workload"}, {"limit", "restriction"}), 750)>>],
    [type |-> "phaseWindow",
     patterns |->
       <<Pattern(Followed({"only run in", "can run in", "restricted to"},
                          {"phase"}), 800),
         Pattern(Followed({"phase", "timing"},
                          {"window", "constraint", "restriction"}), 750),
         Pattern(Followed({"during", "in"}, {"phase", "period", "time"}), 700)>>],
    [type |-> "patternMatch",
     patterns |->
       <<Pattern(Alternatives({"starting with", "ending with", "containing",
                               "matching"}), 750),
         Pattern(Alternatives({"pattern", "regex", "wildcard", "template"}), 800),
         Pattern({<<"all", "that">>, <<"tasks", "like">>,
                  <<"names", "containing">>}, 700)>>],
    [type |-> "precedenceOverride",
     patterns |->
       <<Pattern(Alternatives({"override", "precedence", "priority", "hierarchy"}), 700),
         Pattern(Alternatives({"takes precedence", "overrides", "supersedes"}), 800),
         Pattern(Followed({"global", "specific"}, {"rule", "override"}), 750)>>]>>

\* the inner forEach: the largest weight of the patterns that match, 0 when
\* none does
typeConfidence(patterns, lower) ==
  LET matching == {p \in 1..Len(patterns) : Test(patterns[p].pairs, lower)}
  IN  IF matching = {} THEN 0
      ELSE patterns[CHOOSE p \in matching :
                      \A q \in matching : patterns[q].weight <= patterns[p].weight].weight

NoMatch == [type |-> "null", confidence |-> 0]

\* the outer forEach with a type of equal confidence taking the place of the
\* one found before it
RECURSIVE BestMatchLatest(_, _, _)
BestMatchLatest(lower, g, bestMatch) ==
  IF g > Len(rulePatterns) THEN bestMatch
  ELSE LET confidence == typeConfidence(rulePatterns[g].patterns, lower)
       IN  BestMatchLatest(lower, g + 1,
             IF confidence >= bestMatch.confidence /\ confidence > 0
             THEN [type |-> rulePatterns[g].type, confidence |-> confidence]
             ELSE bestMatch)

\* the outer forEach from group g on: a type takes the place of bestMatch when
\* its confidence is larger
RECURSIVE BestMatch(_, _, _)
BestMatch(lower, g, bestMatch) ==
  IF g > Len(rulePatterns) THEN bestMatch
  ELSE LET confidence == typeConfidence(rulePatterns[g].patterns, lower)
       IN  BestMatch(lower, g + 1,
             IF confidence > bestMatch.confidence
             THEN [type |-> rulePatterns[g].type, confidence |-> confidence]
             ELSE bestMatch)

\* the end of the longest run of characters that satisfy the class and begin at
\* i, i - 1 when there is none; class is "digit", "word" or "space"
InClass(c, class) ==
  CASE class = "digit" -> IsDigitChar(c)
    [] class = "word"  -> IsWordChar(c)
    [] OTHER           -> IsSpaceChar(c)

RECURSIVE RunEnd(_, _, _)
RunEnd(text, i, class) ==
  IF InClass(CharAt(text, i), class) THEN RunEnd(text, i + 1, class) ELSE i - 1

\* input.match(/T\d+/g) || []
TaskMatches(input) ==
  LET starts == {i \in 1..Len(input) :
                   CharAt(input, i) = "T" /\ IsDigitChar(CharAt(input, i + 1))}
      start(k) == CHOOSE i \in starts : Cardinality({j \in starts : j < i}) = k - 1
  IN  [k \in 1..Cardinality(starts) |->
         SubSeq(input, start(k), RunEnd(input, start(k) + 1, "digit"))]

\* the end of [A-Z]\w+(?:\s+\w+)* from the end e of a word on: the words that
\* follow, each after white space
RECURSIVE ChainEnd(_, _)
ChainEnd(text, e) ==
  LET next == RunEnd(text, e + 1, "space") + 1
  IN  IF next > e + 1 /\ IsWordChar(CharAt(text, next))
      THEN ChainEnd(text, RunEnd(text, next, "word"))
      ELSE e

\* /(?:task|tasks)\s+([A-Z]\w+(?:\s+\w+)*)/i tried at position pos: whether it
\* matches there, where the name begins and where the match ends
NameMatchAt(text, pos) ==
  LET space == IF IsSpaceChar(CharAt(text, pos + 4)) THEN pos + 4
               ELSE IF /\ LowerCase(CharAt(text, pos + 4)) = "s"
                       /\ IsSpaceChar(CharAt(text, pos + 5)) THEN pos + 5
               ELSE 0
      name == RunEnd(text, space, "space") + 1
  IN  IF /\ LowerCase(SubSeq(text, pos, pos + 3)) = "task"
         /\ space > 0
         /\ IsLetterChar(CharAt(text, name))
         /\ IsWordChar(CharAt(text, name + 1))
      THEN [found |-> TRUE, name |-> name,
            end |-> ChainEnd(text, RunEnd(text, name, "word"))]
      ELSE [found |-> FALSE, name |-> 0, end |-> 0]

\* input.match(/(?:task|tasks)\s+([A-Z]\w+(?:\s+\w+)*)/gi) || [] from pos on,
\* each match after match.replace(/^tasks?\s+/i, "")
RECURSIVE TaskNameMatches(_, _)
TaskNameMatches(input, pos) ==
  LET starts == {p \in pos..(Len(input) - 3) : NameMatchAt(input, p).found}
  IN  IF starts = {} THEN <<>>
      ELSE LET m == NameMatchAt(input, FirstOf(starts))
           IN  <<SubSeq(input, m.name, m.end)>> \o TaskNameMatches(input, m.end + 1)

\* t.TaskID === taskId: a TaskID that is not a text equals no match
IsTask(task, taskId) ==
  /\ Property(task, "TaskID").k = "str"
  /\ CellText(Property(task, "TaskID")) = taskId

\* taskIds.includes(task)
ValidTask(tasks, task) == \E t \in 1..Len(tasks) : IsTask(tasks[t], task)

\* dataSet.tasks.some(task => task.TaskName?.toLowerCase().includes(name.toLowerCase()))
\* from row t on: "yes", "no", or "throw" at a name that is neither absent nor
\* a text
RECURSIVE NameKnown(_, _, _)
NameKnown(tasks, t, name) ==
  IF t > Len(tasks) THEN "no"
  ELSE LET TaskName == Property(tasks[t], "TaskName")
       IN  IF TaskName.k \in {"undef", "null"} THEN NameKnown(tasks, t + 1, name)
           ELSE IF TaskName.k # "str" THEN "throw"
           ELSE IF Has(LowerCase(CellText(TaskName)), LowerCase(name)) THEN "yes"
           ELSE NameKnown(tasks, t + 1, name)

\* Array.prototype.filter over texts
Keep(texts, kept) ==
  LET F[i \in 0..Len(texts)] ==
        IF i = 0 THEN <<>>
        ELSE IF i \in kept THEN Append(F[i - 1], texts[i]) ELSE F[i - 1]
  IN  F[Len(texts)]

\* [...new Set(rows.map(row => row[key]).filter(Boolean))]
Groups(rows, key) ==
  Dedup(SelectSeq([i \in 1..Len(rows) |-> Property(rows[i], key)], Truthy))

\* groups.find(group => lowercaseInput.includes(group.toLowerCase())) from
\* position g on: the group found, none, or the throw at a group that is not a
\* text
RECURSIVE FindGroup(_, _, _)
FindGroup(groups, g, lower) ==
  IF g > Len(groups) THEN [threw |-> FALSE, found |-> FALSE, group |-> ""]
  ELSE IF groups[g].k # "str" THEN [threw |-> TRUE, found |-> FALSE, group |-> ""]
  ELSE IF Has(lower, LowerCase(CellText(groups[g])))
  THEN [threw |-> FALSE, found |-> TRUE, group |-> CellText(groups[g])]
  ELSE FindGroup(groups, g + 1, lower)

\* a key word of keys, white space, and a digit: (?:a|b)\s+(\d+) under the i flag
NumberAfter(lower, keys) ==
  \E key \in keys : \E i \in Starts(lower, key) :
    LET after == RunEnd(lower, i + Len(key), "space") + 1
    IN  after > i + Len(key) /\ IsDigitChar(CharAt(lower, after))

\* a digit, white space, and a key word of keys: (\d+)\s+(?:a|b)
NumberBefore(lower, keys) ==
  \E i \in 1..Len(lower) :
    LET after == RunEnd(lower, i + 1, "space") + 1
    IN  /\ IsDigitChar(CharAt(lower, i))
        /\ after > i + 1
        /\ \E key \in keys : after \in Starts(lower, key)

\* the messages of the warnings
NeedTwoTasks     == "Need at least 2 valid task identifiers for co-run rule"
NoSlotLimit      == "Could not extract slot limit number"
NoWorkerGroup    == "Could not identify worker group"
NoLoadLimit      == "Could not extract load limit number"
NoValidTask      == "Could not identify valid task ID"
NoPhases         == "Could not extract phase information"
NoCommonPhases   == "Selected tasks have no overlapping preferred phases"

\* what the switch of parseNaturalLanguageRule leaves: whether it threw, the
\* tasks and taskNames of the parameters, the changes made to the confidence in
\* their order, the warnings, and the suggestions by their kind
Extraction(tasks, taskNames, changes, warnings, suggestions) ==
  [threw |-> FALSE, tasks |-> tasks, taskNames |-> taskNames, changes |-> changes,
   warnings |-> warnings, suggestions |-> suggestions]
ExtractionThrew ==
  [threw |-> TRUE, tasks |-> <<>>, taskNames |-> <<>>, changes |-> <<>>,
   warnings |-> <<>>, suggestions |-> <<>>]

\* case "coRun", from the valid task ids, the task names matched, and whether
\* the data set knows each name
CoRunValid(validTasks, taskNameMatches, known) ==
  LET validTaskNames == Keep(taskNameMatches,
                             {i \in 1..Len(taskNameMatches) : known[i] = "yes"})
  IN  IF \E i \in 1..Len(known) : known[i] = "throw" THEN ExtractionThrew
      ELSE IF Len(validTasks) >= 2
      THEN Extraction(validTasks, <<>>, <<100>>, <<>>, <<>>)
      ELSE IF Len(validTaskNames) >= 2
      THEN Extraction(<<>>, validTaskNames, <<50>>, <<>>, <<"useTaskIds">>)
      ELSE Extraction(<<>>, <<>>, <<-200>>, <<NeedTwoTasks>>, <<>>)

\* the matches of the two task patterns, each kept when the data set knows it
CoRunMatches(taskMatches, taskNameMatches, tasks) ==
  CoRunValid(Keep(taskMatches,
                  {i \in 1..Len(taskMatches) : ValidTask(tasks, taskMatches[i])}),
             taskNameMatches,
             [i \in 1..Len(taskNameMatches) |-> NameKnown(tasks, 1, taskNameMatches[i])])

\* case "coRun"
CoRunExtraction(input, data) ==
  CoRunMatches(TaskMatches(input), TaskNameMatches(input, 1), data.tasks)

\* limitPatterns: whether one of them matches
LimitMatch(lower) ==
  \/ NumberAfter(lower, {"maximum", "max", "limit", "no more than", "at most"})
  \/ \E i \in Starts(lower, "restrict") : \E j \in Starts(lower, "to") :
       LET after == RunEnd(lower, j + 2, "space") + 1
       IN  j >= i + 8 /\ after > j + 2 /\ IsDigitChar(CharAt(lower, after))
  \/ NumberBefore(lower, {"slot", "shared", "maximum", "max"})

\* case "slotRestriction"
SlotExtraction(lower, data) ==
  LET clientGroup == FindGroup(Groups(data.clients, "GroupTag"), 1, lower)
      workerGroup == FindGroup(Groups(data.workers, "WorkerGroup"), 1, lower)
      threw == clientGroup.threw \/ (~clientGroup.found /\ workerGroup.threw)
      groupMatch == clientGroup.found \/ workerGroup.found
      limitMatch == LimitMatch(lower)
  IN  IF threw THEN ExtractionThrew
      ELSE Extraction(<<>>, <<>>,
             (IF groupMatch THEN <<100>> ELSE <<>>)
               \o (IF limitMatch THEN <<100>> ELSE <<-100>>),
             IF limitMatch THEN <<>> ELSE <<NoSlotLimit>>,
             IF groupMatch THEN <<>> ELSE <<"availableGroups">>)

\* loadPatterns: whether one of them matches
LoadMatch(lower) ==
  \/ \E key \in {"maximum", "max", "limit", "no more than", "at most"} :
       \E i \in Starts(lower, key) :
         LET number == RunEnd(lower, i + Len(key), "space") + 1
             end == RunEnd(lower, number, "digit")
             unit == RunEnd(lower, end + 1, "space") + 1
         IN  /\ number > i + Len(key)
             /\ end >= number
             /\ unit > end + 1
             /\ \E word \in {"task", "work", "load"} : unit \in Starts(lower, word)
  \/ \E i \in 1..Len(lower) :
       LET unit == RunEnd(lower, i + 1, "space") + 1
       IN  /\ IsDigitChar(CharAt(lower, i))
           /\ unit > i + 1
           /\ \E word \in {"task", "work", "load"} :
                /\ unit \in Starts(lower, word)
                /\ \E key \in {"maximum", "max", "limit"} :
                     \E j \in Starts(lower, key) : j >= unit + Len(word)
  \/ NumberAfter(lower, {"exceed", "more than"})

\* case "loadLimit" with a loss of confidence where no number is found
LoadExtractionPenalty(lower, data) ==
  LET workerGroupMatch == FindGroup(Groups(data.workers, "WorkerGroup"), 1, lower)
      loadMatch == LoadMatch(lower)
  IN  IF workerGroupMatch.threw THEN ExtractionThrew
      ELSE Extraction(<<>>, <<>>,
             (IF workerGroupMatch.found THEN <<100>> ELSE <<>>)
               \o (IF loadMatch THEN <<100>> ELSE <<-100>>),
             (IF workerGroupMatch.found THEN <<>> ELSE <<NoWorkerGroup>>)
               \o (IF loadMatch THEN <<>> ELSE <<NoLoadLimit>>),
             IF workerGroupMatch.found THEN <<>> ELSE <<"availableWorkerGroups">>)

\* case "loadLimit"
LoadExtraction(lower, data) ==
  LET workerGroupMatch == FindGroup(Groups(data.workers, "WorkerGroup"), 1, lower)
      loadMatch == LoadMatch(lower)
  IN  IF workerGroupMatch.threw THEN ExtractionThrew
      ELSE Extraction(<<>>, <<>>,
             (IF workerGroupMatch.found THEN <<100>> ELSE <<>>)
               \o (IF loadMatch THEN <<100>> ELSE <<>>),
             (IF workerGroupMatch.found THEN <<>> ELSE <<NoWorkerGroup>>)
               \o (IF loadMatch THEN <<>> ELSE <<NoLoadLimit>>),
             IF workerGroupMatch.found THEN <<>> ELSE <<"availableWorkerGroups">>)

\* phasePatterns: whether one of them matches; the last one matches any digit
PhaseMatch(lower) ==
  \/ \E i \in Starts(lower, "phase") :
       LET space == IF CharAt(lower, i + 5) = "s" /\ IsSpaceChar(CharAt(lower, i + 6))
                    THEN i + 6 ELSE i + 5
       IN  /\ IsSpaceChar(CharAt(lower, space))
           /\ \/ IsDigitChar(CharAt(lower, space + 1))
              \/ CharAt(lower, space + 1) \in {",", " "}
              \/ /\ CharAt(lower, space + 1) = "-"
                 /\ \E key \in {"in", "during"} : \E k \in Starts(lower, key) :
                      /\ i > k + Len(key)
                      /\ RunEnd(lower, k + Len(key), "space") + 1 = i
  \/ \E i \in 1..Len(lower) : IsDigitChar(CharAt(lower, i))

\* case "phaseWindow"
PhaseExtraction(input, lower, data) ==
  LET taskMatches == TaskMatches(input)
      taskMatch == taskMatches # <<>> /\ ValidTask(data.tasks, taskMatches[1])
      phaseMatches == PhaseMatch(lower)
  IN  Extraction(<<>>, <<>>,
        (IF taskMatch THEN <<100>> ELSE <<>>) \o (IF phaseMatches THEN <<100>> ELSE <<>>),
        (IF taskMatch THEN <<>> ELSE <<NoValidTask>>)
          \o (IF phaseMatches THEN <<>> ELSE <<NoPhases>>),
        IF taskMatch THEN <<>> ELSE <<"availableTasks">>)

\* (?:a|b)\s+['"]([^'"]+)['"], without the i flag
QuotedAfter(input, keys) ==
  \E key \in keys : \E i \in Starts(input, key) :
    LET quote == RunEnd(input, i + Len(key), "space") + 1
    IN  /\ quote > i + Len(key)
        /\ CharAt(input, quote) \in {"'", "\""}
        /\ CharAt(input, quote + 1) \notin {"'", "\"", ""}
        /\ \E close \in (quote + 2)..Len(input) :
             /\ CharAt(input, close) \in {"'", "\""}
             /\ \A k \in (quote + 1)..(close - 1) : CharAt(input, k) \notin {"'", "\""}

\* case "patternMatch"
PatternExtraction(input, lower) ==
  LET pattern == QuotedAfter(input, {"starting with", "begins with", "ending with",
                                     "ends with", "containing", "includes",
                                     "matching", "like"})
      action == \E word \in {"prioritize", "priority", "urgent", "important",
                             "exclude", "remove", "skip", "ignore",
                             "include", "add", "consider",
                             "flag", "mark", "highlight"} : Has(lower, word)
  IN  Extraction(<<>>, <<>>,
        (IF pattern THEN <<100>> ELSE <<>>) \o (IF action THEN <<50>> ELSE <<>>),
        <<>>, <<>>)

\* case "precedenceOverride"
OverrideExtraction(lower) ==
  LET override == \E word \in {"global", "all", "every", "universal",
                               "specific", "particular", "individual", "certain",
                               "high priority", "critical", "urgent",
                               "client", "customer",
                               "worker", "resource", "staff"} : Has(lower, word)
  IN  Extraction(<<>>, <<>>, IF override THEN <<50>> ELSE <<>>, <<>>, <<>>)

\* the converter's parseArrayField: the list itself, the pieces of a text
\* between its commas, nothing for a falsy value, and the throw of field.split
\* on any other value
RuleArrayField(field) ==
  IF field.k = "list" THEN [threw |-> FALSE, items |-> field.l]
  ELSE IF ~Truthy(field) THEN [threw |-> FALSE, items |-> <<>>]
  ELSE IF field.k = "str"
  THEN [threw |-> FALSE,
        items |-> LET parts == Split(field.s)
                  IN  [i \in 1..Len(parts) |-> Str(Trim(parts[i]))]]
  ELSE [threw |-> TRUE, items |-> <<>>]

\* dataSet.tasks.find(t => t.TaskID === taskId), then parseArrayField of its
\* PreferredPhases
PhasesOf(tasks, taskId) ==
  LET t == CHOOSE t \in 1..Len(tasks) :
             /\ IsTask(tasks[t], taskId)
             /\ \A u \in 1..(t - 1) : ~IsTask(tasks[u], taskId)
  IN  RuleArrayField(Property(tasks[t], "PreferredPhases"))

\* taskPhases.reduce((common, phases) => common.filter(phase =>
\* phases.includes(phase))): the phases of the first task that every other
\* task has, by strict equality
CommonPhases(taskPhases) ==
  LET first == taskPhases[1]
      F[i \in 0..Len(first)] ==
        IF i = 0 THEN <<>>
        ELSE IF \A t \in 2..Len(taskPhases) : first[i] \in Range(taskPhases[t])
        THEN Append(F[i - 1], first[i])
        ELSE F[i - 1]
  IN  F[Len(first)]

\* confidence += change in binary floating point: the sums of the weights and
\* changes of the converter stand on the same side of 0, 0.5 and 1 as their
\* decimal values except 0.7 - 0.2, which is 0.49999999999999994
Add(confidence, change) ==
  IF confidence = 700 /\ change = -200 THEN 499 ELSE confidence + change

RECURSIVE AddAll(_, _)
AddAll(confidence, changes) ==
  IF changes = <<>> THEN confidence
  ELSE AddAll(Add(confidence, Head(changes)), Tail(changes))

\* Math.max(0, Math.min(1, confidence)) without its bounds
ClampNone(confidence) == confidence

\* Math.max(0, Math.min(1, confidence))
Clamp(confidence) ==
  IF confidence < 0 THEN 0 ELSE IF confidence > 1000 THEN 1000 ELSE confidence

NoRule == [type |-> "null"]

ParsedRule(type, tasks, taskNames, confidence, warnings, suggestions, aiEnhanced) ==
  [type |-> type, tasks |-> tasks, taskNames |-> taskNames, confidence |-> confidence,
   warnings |-> warnings, suggestions |-> suggestions, aiEnhanced |-> aiEnhanced]

\* the rule after the cross check of a co-run rule with two valid tasks: the
\* warning and the suggestions it adds, and the throw of a phase list it
\* cannot read
CheckedRule(bestMatch, extraction, taskPhases) ==
  LET ruleType == bestMatch.type
      checked == ruleType = "coRun" /\ Len(extraction.tasks) >= 2
      commonPhases == IF checked
                      THEN CommonPhases([i \in 1..Len(taskPhases) |-> taskPhases[i].items])
                      ELSE <<>>
  IN  IF ruleType = "null" THEN [threw |-> FALSE, rule |-> NoRule]
      ELSE IF extraction.threw THEN [threw |-> TRUE, rule |-> NoRule]
      ELSE IF checked /\ \E i \in 1..Len(taskPhases) : taskPhases[i].threw
      THEN [threw |-> TRUE, rule |-> NoRule]
      ELSE [threw |-> FALSE,
            rule |-> ParsedRule(ruleType, extraction.tasks, extraction.taskNames,
                       Clamp(AddAll(bestMatch.confidence, extraction.changes)),
                       extraction.warnings
                         \o (IF checked /\ commonPhases = <<>>
                             THEN <<NoCommonPhases>> ELSE <<>>),
                       extraction.suggestions
                         \o (IF ~checked THEN <<>>
                             ELSE IF commonPhases = <<>> THEN <<"adjustPhases">>
                             ELSE <<"commonPhases">>),
                       FALSE)]

\* the rule from what the switch left: the preferred phases of its tasks are
\* looked up for the cross check
ExtractedRule(bestMatch, extraction, tasks) ==
  CheckedRule(bestMatch, extraction,
              [i \in 1..Len(extraction.tasks) |-> PhasesOf(tasks, extraction.tasks[i])])

\* switch (ruleType)
SwitchExtraction(ruleType, input, lower, data) ==
  CASE ruleType = "coRun"           -> CoRunExtraction(input, data)
    [] ruleType = "slotRestriction" -> SlotExtraction(lower, data)
    [] ruleType = "loadLimit"       -> LoadExtraction(lower, data)
    [] ruleType = "phaseWindow"     -> PhaseExtraction(input, lower, data)
    [] ruleType = "patternMatch"    -> PatternExtraction(input, lower)
    [] OTHER                        -> OverrideExtraction(lower)

\* the rule of the best match of the sentence
ClassifiedRule(bestMatch, input, lower, data) ==
  ExtractedRule(bestMatch, SwitchExtraction(bestMatch.type, input, lower, data),
                data.tasks)

\* parseNaturalLanguageRule: whether it threw, and the rule or null
parseNaturalLanguageRule(input, data) ==
  ClassifiedRule(BestMatch(LowerCase(input), 1, NoMatch), input, LowerCase(input), data)

---------------------------------------------------------------------------
(* AIRuleConverter and the RuleBuilder that mounts it *)

MaxConversions == 1

\* the sentences typed into the converter: its six examples and others
RuleSentences ==
  {"Tasks T001 and T003 must run together in the same phase",
   "Limit Enterprise clients to maximum 3 shared slots per phase",
   "DataTeam workers should not exceed 4 tasks per phase",
   "Task T005 can only run in phases 1, 2, or 3",
   "All tasks starting with 'CRIT' should be prioritized",
   "High priority client rules override worker load limits",
   "Tasks T1 and T2 must run together",
   "Tasks T1 and T3 must run together",
   "Pair tasks Build, task Deploy",
   "Pair tasks T1 and T9",
   "Limit DataTeam to max 3 shared tasks",
   "Link tasks T1 and T2 with a pattern",
   "Limit DataTeam to max 3 tasks",
   "Limit DataTeam work",
   "capacity limit",
   "Hello world"}

NamedTask(id, name, phases) ==
  [TaskID |-> S(id), TaskName |-> S(name), PreferredPhases |-> phases]

GroupedClient == [ClientID |-> S("C1"), ClientName |-> S("Acme"),
                  PriorityLevel |-> Num(4), GroupTag |-> S("Enterprise")]
GroupedWorker == [WorkerID |-> S("W1"), WorkerName |-> S("Ann"),
                  WorkerGroup |-> S("DataTeam")]

\* the data on the page when the converter is used: PreferredPhases as texts
\* with commas, as a JSON text and a list, as single numerals and a number, as
\* a list of numbers and a text, and as two lists
RuleDataSets ==
  {[clients |-> <<GroupedClient>>,
    workers |-> <<GroupedWorker>>,
    tasks   |-> <<NamedTask("T1", "Build", Str(<<"1", ",", "2">>)),
                  NamedTask("T2", "Deploy", Str(<<"2", ",", " ", "3">>)),
                  NamedTask("T001", "Plan", Str(<<"1", ",", "2">>)),
                  NamedTask("T003", "Ship", S("2"))>>],
   [clients |-> <<HighClient>>,
    workers |-> <<>>,
    tasks   |-> <<NamedTask("T1", "Build", SlotsText),
                  NamedTask("T2", "Build", List(<<Num(2), Num(3)>>))>>],
   [clients |-> <<>>,
    workers |-> <<GroupedWorker>>,
    tasks   |-> <<NamedTask("T1", "Build", S("1")),
                  NamedTask("T2", "Deploy", S("3")),
                  NamedTask("T3", "Test", Num(3))>>],
   [clients |-> <<>>,
    workers |-> <<>>,
    tasks   |-> <<NamedTask("T1", "Build", List(<<Num(1), Num(2)>>)),
                  NamedTask("T2", "Deploy", Str(<<"2", ",", "3">>))>>],
   [clients |-> <<>>,
    workers |-> <<>>,
    tasks   |-> <<NamedTask("T1", "Build", List(<<Num(1), Num(2)>>)),
                  NamedTask("T2", "Deploy", List(<<Num(2), Num(3)>>))>>]}

\* AIRuleConverter as mounted.  pageKey: whether the page holds an API key;
\* forwarded: whether the parent hands it on as the geminiApiKey prop, which
\* RuleBuilder does not.  rules: the rule collection of the parent, each rule
\* with the ParsedRule it was made from.
ConverterMounted(pageKey, forwarded) ==
  [phase |-> "idle", pageKey |-> pageKey, forwarded |-> forwarded,
   geminiApiKey |-> pageKey /\ forwarded, useGemini |-> FALSE, input |-> "",
   sent |-> 0, reply |-> NoReply, answered |-> FALSE, threw |-> FALSE,
   parsedRule |-> NoRule, rules |-> <<>>, conversions |-> 0]

\* the Gemini button of the converter, shown when there is a key
ConverterSetUseGemini ==
  /\ converter.phase = "idle"
  /\ converter.geminiApiKey
  /\ converter' = [converter EXCEPT !.useGemini = ~@]
  /\ UNCHANGED <<dataSet, rowsId, activeTab, validationResults, isValidating,
                 validationProgress, currentStep, runs, uploads, edits, search, builderVars, gridVars>>

\* handleProcessRule up to its await: the rule shown is cleared, then the
\* request to the assist endpoint when the button is on and there is a key,
\* the local parse otherwise
handleProcessRule(input) ==
  LET assist == converter.useGemini /\ converter.geminiApiKey
  IN  /\ converter.phase = "idle"
      /\ converter.conversions < MaxConversions
      /\ converter' = [converter EXCEPT !.phase = IF assist THEN "waiting" ELSE "parsing",
                                        !.input = input,
                                        !.sent = IF assist THEN 1 ELSE 0,
                                        !.answered = FALSE,
                                        !.threw = FALSE,
                                        !.parsedRule = NoRule,
                                        !.conversions = @ + 1]
      /\ UNCHANGED <<dataSet, rowsId, activeTab, validationResults, isValidating,
                     validationProgress, currentStep, runs, uploads, edits, search, builderVars, gridVars>>

\* the converter's callGeminiAPI from the answer on: "throw" on a status that
\* is not 2xx and on responseText.match when data.response is undefined, null
\* when no JSON is read from the text, the rule of the answer otherwise
RuleCall(reply) ==
  IF ~reply.ok \/ ResponseMember(reply) = Undef THEN [threw |-> TRUE, rule |-> NoRule]
  ELSE IF reply.parsed = "none" THEN [threw |-> FALSE, rule |-> NoRule]
  ELSE [threw |-> FALSE, rule |-> reply.content]

\* what the endpoint may answer the converter with: the text of the last two
\* holds JSON, an object without the members of a rule and a rule whose
\* confidence is 1.5
RuleReplies ==
  {NoReply,
   Reply(TRUE, "none", <<>>),
   Reply(TRUE, "object", [aiEnhanced |-> TRUE]),
   Reply(TRUE, "answer", ParsedRule("coRun", <<"T1", "T2">>, <<>>, 1500, <<>>, <<>>, TRUE))}

\* the rest of handleProcessRule: setParsedRule(parsed) unless the parse threw
FinishRule(parsed, reply, answered) ==
  /\ converter' = [converter EXCEPT !.phase = "idle",
                                    !.reply = reply,
                                    !.answered = answered,
                                    !.threw = parsed.threw,
                                    !.parsedRule = IF parsed.threw THEN @ ELSE parsed.rule]
  /\ UNCHANGED <<dataSet, rowsId, activeTab, validationResults, isValidating,
                 validationProgress, currentStep, runs, uploads, edits, search, builderVars, gridVars>>

\* the assist endpoint answers the request of handleProcessRule: the rule of
\* callGeminiAPI, that of the local parse when the call threw
ConverterAssistAnswers(reply) ==
  /\ converter.phase = "waiting"
  /\ FinishRule(IF RuleCall(reply).threw
                THEN parseNaturalLanguageRule(converter.input, dataSet)
                ELSE RuleCall(reply),
                reply, TRUE)

\* the local parse of handleProcessRule ends
RuleParsed ==
  /\ converter.phase = "parsing"
  /\ FinishRule(parseNaturalLanguageRule(converter.input, dataSet), NoReply, FALSE)

\* the Create Rule button without its disabled attribute
CreateAlways(parsedRule) == TRUE

\* the Create Rule button: disabled={parsedRule.confidence < 0.5 ||
\* (parsedRule.warnings && parsedRule.warnings.length > 0)}
CreateEnabled(parsedRule) ==
  ~(parsedRule.confidence < 500 \/ Len(parsedRule.warnings) > 0)

\* handleAIRuleCreated of RuleBuilder: the rule added to the collection
handleAIRuleCreated(rules, parsedRule) ==
  Append(rules, [type |-> parsedRule.type, priority |-> 1, enabled |-> TRUE,
                 from |-> parsedRule])

\* a click on Create Rule: handleCreateRule
handleCreateRule ==
  /\ converter.phase = "idle"
  /\ converter.parsedRule # NoRule
  /\ CreateEnabled(converter.parsedRule)
  /\ converter' = [converter EXCEPT
                     !.rules = handleAIRuleCreated(@, converter.parsedRule),
                     !.input = "",
                     !.parsedRule = NoRule]
  /\ UNCHANGED <<dataSet, rowsId, activeTab, validationResults, isValidating,
                 validationProgress, currentStep, runs, uploads, edits, search, builderVars, gridVars>>

---------------------------------------------------------------------------
(* GeminiEnhancedSearch *)

\* value.toString().toLowerCase() as one text
LowerText(cell) == LowerCase(Phrase(ToStr(cell), ""))

\* Number.parseFloat on String(x) with its leading blanks skipped: an optional
\* sign, digits and one decimal; NaN when there is no digit
FloatOfText(t) ==
  LET neg == t # <<>> /\ t[1] = "-"
      u == IF t # <<>> /\ t[1] \in {"-", "+"} THEN Tail(t) ELSE t
      d == DigitPrefix(u)
      r == SubSeq(u, Len(d) + 1, Len(u))
      f == IF Len(r) >= 2 /\ r[1] = "." /\ IsDigit(r[2]) THEN DigitVal(r[2]) ELSE 0
  IN IF d = <<>> THEN NaN
     ELSE IF neg THEN Val(-AtomsToNat(d), -f) ELSE Val(AtomsToNat(d), f)

\* Number.parseFloat(x)
ParseFloat(c) == FloatOfText(TrimLeft(ToStr(c)))

Criteria(field, operator, value) ==
  [field |-> field, operator |-> operator, value |-> value]

\* the switch of processGeminiSearch on one record and one criteria, which may
\* lack a member: "true", "false", or "throw" when criteria.value has no
\* toLowerCase or an item of a list has no toString
\* parseFloat(fieldValue) > parseFloat(criteria.value), and the same with <
FloatsCompare(operator, a, b) ==
  /\ ~a.nan
  /\ ~b.nan
  /\ IF operator = "greater" THEN InTenths(a) > InTenths(b) ELSE InTenths(a) < InTenths(b)

CriteriaOutcome(item, criteria) ==
  LET Bit(b) == IF b THEN "true" ELSE "false"
      operator == IF "operator" \in DOMAIN criteria THEN criteria.operator ELSE "undefined"
      value == Property(criteria, "value")
      fieldValue == IF "field" \in DOMAIN criteria THEN Property(item, criteria.field)
                    ELSE Undef
      absent == fieldValue.k \in {"undef", "null"}
      text == value.k = "str"
      wanted == LowerCase(CellText(value))
  IN  CASE operator = "equals" ->
             IF ~text THEN "throw"
             ELSE Bit(~absent /\ LowerText(fieldValue) = wanted)
        [] operator = "contains" ->
             IF absent THEN "false"
             ELSE IF ~text THEN "throw"
             ELSE Bit(Has(LowerText(fieldValue), wanted))
        [] operator \in {"greater", "less"} ->
             Bit(FloatsCompare(operator, ParseFloat(fieldValue), ParseFloat(value)))
        [] operator = "in" ->
             IF fieldValue.k # "list" \/ fieldValue.l = <<>> THEN "false"
             ELSE LET first == CHOOSE i \in 1..(Len(fieldValue.l) + 1) :
                                 /\ \/ i = Len(fieldValue.l) + 1
                                    \/ fieldValue.l[i].k \in {"undef", "null"}
                                    \/ ~text
                                    \/ Has(LowerText(fieldValue.l[i]), wanted)
                                 /\ \A j \in 1..(i - 1) :
                                      /\ fieldValue.l[j].k \notin {"undef", "null"}
                                      /\ text
                                      /\ ~Has(LowerText(fieldValue.l[j]), wanted)
                  IN  IF first = Len(fieldValue.l) + 1 THEN "false"
                      ELSE IF fieldValue.l[first].k \in {"undef", "null"} \/ ~text
                      THEN "throw"
                      ELSE "true"
        [] OTHER -> "false"

\* searchCriteria.every(...): the outcome of the first criteria that is not true
EveryCriteria(item, searchCriteria) ==
  FirstNotTrue([c \in 1..Len(searchCriteria) |-> CriteriaOutcome(item, searchCriteria[c])])

\* fallbackSearch: the records one of whose values holds the query, in any case
\* of letters
fallbackSearch(data, words) ==
  LET Kept(item) ==
        \E key \in DOMAIN item :
          /\ item[key].k \notin {"undef", "null"}
          /\ Has(LowerText(item[key]), LowerCase(Phrase(words, " ")))
  IN  SelectSeq(data, Kept)

\* try { ... } catch { fallbackSearch(...) }
OrFallback(run, fallback) == IF run.threw THEN fallback ELSE run.results

\* processGeminiSearch from the answer on: the records every criteria of the
\* answer holds on; those of fallbackSearch on a status that is not 2xx, on a
\* text JSON.parse rejects, on JSON without searchCriteria and on a criteria
\* that throws
EnhancedResults(reply, data, words) ==
  OrFallback(IF ~reply.ok \/ reply.parsed \in {"none", "object"}
             THEN [threw |-> TRUE, results |-> <<>>]
             ELSE FilterOutcome(data, [i \in 1..Len(data) |->
                                         EveryCriteria(data[i], reply.content)]),
             fallbackSearch(data, words))

EnhancedReplies ==
  {NoReply,
   Reply(TRUE, "none", <<>>),
   Reply(TRUE, "object", <<>>),
   Reply(TRUE, "partial", <<[field |-> "ClientName", value |-> S("acme")]>>),
   Reply(TRUE, "partial", <<[field |-> "ClientName", operator |-> "equals"]>>),
   Reply(TRUE, "answer", <<Criteria("PriorityLevel", "greater", S("3"))>>),
   Reply(TRUE, "answer", <<Criteria("TaskName", "contains", S("build"))>>),
   Reply(TRUE, "answer", <<Criteria("ClientName", "equals", Num(3))>>),
   Reply(TRUE, "answer", <<Criteria("PreferredPhases", "in", S("2"))>>)}

EnhancedQueries == {<<"acme">>, <<"Build">>, <<"high", "priority", "clients">>}

\* the data prop of GeminiEnhancedSearch
EnhancedData(ds) == ds.clients \o ds.workers \o ds.tasks

\* processGeminiSearch up to its await; without a key the component shows no
\* search box
processGeminiSearch(words) ==
  /\ search.phase = "idle"
  /\ search.component = "enhanced"
  /\ search.geminiApiKey
  /\ search.searches < MaxSearches
  /\ search' = [search EXCEPT !.phase = "waiting",
                              !.query = words,
                              !.sent = 1,
                              !.answered = FALSE,
                              !.published = FALSE,
                              !.searches = @ + 1]
  /\ UNCHANGED <<dataSet, rowsId, activeTab, validationResults, isValidating,
                 validationProgress, currentStep, runs, uploads, edits, converter, builderVars, gridVars>>

\* the assist endpoint answers the request of processGeminiSearch
EnhancedAnswers(reply) ==
  /\ search.phase = "waiting"
  /\ search.component = "enhanced"
  /\ search' = [search EXCEPT !.phase = "idle",
                              !.reply = reply,
                              !.answered = TRUE,
                              !.results = EnhancedResults(reply, EnhancedData(dataSet),
                                                          search.query),
                              !.published = TRUE]
  /\ UNCHANGED <<dataSet, rowsId, activeTab, validationResults, isValidating,
                 validationProgress, currentStep, runs, uploads, edits, converter, builderVars, gridVars>>

---------------------------------------------------------------------------
(* The page with data loaded, on the tabs that parse sentences *)

\* the data on the page when the search or the converter is used
AssistDataSets ==
  {[clients |-> <<HighClient, LowClient>>,
    workers |-> <<SkilledWorker>>,
    tasks   |-> <<Task(S("T1"), Num(1), S("java"), Str(<<"1", ",", "2">>)),
                  Task(S("T2"), Num(1), S("java"), Str(<<"2", ",", "3">>))>>],
   [clients |-> <<BareClient, HighClient, TextClient, LowClient>>,
    workers |-> <<BareWorker, SkilledWorker>>,
    tasks   |-> <<Task(S("T1"), Num(1), S("java"), SlotsText),
                  Task(S("T2"), Num(1), S("java"), List(<<Num(2), Num(3)>>))>>],
   [clients |-> <<LowClient>>,
    workers |-> <<>>,
    tasks   |-> <<Task(S("T1"), Num(1), S("java"), S("1")),
                  Task(S("T2"), Num(1), S("java"), S("3")),
                  Task(S("T3"), Num(1), S("java"), Num(3))>>],
   [clients |-> <<BlankClient, HighClient, SpaceClient>>,
    workers |-> <<SkilledWorker>>,
    tasks   |-> <<Task(S("T1"), Num(1), S("java"), S("1"))>>]}

AssistInit ==
  /\ TabsClosed
  /\ rowsId = [clients |-> 1, workers |-> 1, tasks |-> 1]
  /\ validationResults = <<>>
  /\ isValidating = FALSE
  /\ validationProgress = 0
  /\ currentStep = ""
  /\ runs = <<>>
  /\ uploads = 0
  /\ edits = 0
  /\ \/ /\ activeTab = "data"
        /\ dataSet \in AssistDataSets
        /\ search \in {SearchMounted(component, activeDataType, geminiApiKey) :
                         component \in {"assist", "plain"},
                         activeDataType \in {"clients", "workers"},
                         geminiApiKey \in BOOLEAN}
        /\ converter = Unmounted
     \/ /\ activeTab = "rules"
        /\ dataSet \in RuleDataSets
        /\ search = Unmounted
        /\ converter \in {ConverterMounted(pageKey, forwarded) :
                            pageKey \in BOOLEAN, forwarded \in BOOLEAN}
     \/ /\ activeTab = "gemini"
        /\ dataSet \in AssistDataSets \cup RuleDataSets
        /\ search \in {SearchMounted("enhanced", "clients", geminiApiKey) :
                         geminiApiKey \in BOOLEAN}
        /\ converter = Unmounted

AssistNext ==
  \/ SetUseGemini
  \/ \E words \in SearchQueries : handleSearch(words)
  \/ \E reply \in SearchReplies : AssistAnswers(reply)
  \/ SearchDelayElapses
  \/ ConverterSetUseGemini
  \/ \E input \in RuleSentences : handleProcessRule(input)
  \/ \E reply \in RuleReplies : ConverterAssistAnswers(reply)
  \/ RuleParsed
  \/ handleCreateRule
  \/ \E words \in EnhancedQueries : processGeminiSearch(words)
  \/ \E reply \in EnhancedReplies : EnhancedAnswers(reply)

AssistSpec == AssistInit /\ [][AssistNext]_vars


---------------------------------------------------------------------------
(* Properties of the search *)

SearchShown ==
  /\ search.phase # "unmounted"
  /\ search.component \in {"assist", "plain"}
  /\ search.published
SearchData == dataSet[search.activeDataType]

\* the value the executor of the mounted search settles on for a field
SettledValue(item, field) ==
  IF search.component = "assist" THEN FieldValue(item, field, <<>>)
  ELSE getNestedValue(item, field)

\* the mounted search's evaluation of one condition on one record is true
Holds(item, condition) ==
  IF search.component = "assist" THEN Evaluate(item, condition, <<>>) = "true"
  ELSE PlainOutcome(getNestedValue(item, condition.field), condition) = "true"

\* C11: a record is in the result handed to the grid if and only if every
\* condition of the list shown evaluates true on it, and a record on which the
\* field of some condition is undefined after every lookup is not in the result.
C11_EveryConditionNoWildcard ==
  SearchShown =>
    \A i \in 1..Len(SearchData) :
      /\ SearchData[i] \in Range(search.results)
           <=> \A c \in 1..Len(search.parsedQuery) :
                 Holds(SearchData[i], search.parsedQuery[c])
      /\ \A c \in 1..Len(search.parsedQuery) :
           SettledValue(SearchData[i], search.parsedQuery[c].field) = Undef
             => SearchData[i] \notin Range(search.results)

\* a search that found records and left out one that lacks a condition's field
C11_Witness ==
  /\ SearchShown
  /\ search.results # <<>>
  /\ \E i \in 1..Len(SearchData) : \E c \in 1..Len(search.parsedQuery) :
       /\ SettledValue(SearchData[i], search.parsedQuery[c].field) = Undef
       /\ SearchData[i] \notin Range(search.results)

\* C12: with clients active, "priority level greater than 3" is parsed to the
\* one condition PriorityLevel > 3 of type numeric, and the records handed to
\* the grid are exactly those whose PriorityLevel is greater than 3.
C12_RoundTrip ==
  /\ SearchShown
  /\ search.activeDataType = "clients"
  /\ search.query = <<"priority", "level", "greater", "than", "3">>
  /\ ~search.answered
  => /\ search.parsedQuery = <<Condition("PriorityLevel", ">", Num(3), "numeric")>>
     /\ search.results =
          SelectSeq(SearchData,
                    LAMBDA item :
                      /\ ~ToNumber(SettledValue(item, "PriorityLevel")).nan
                      /\ ToNumber(SettledValue(item, "PriorityLevel")).n >= 3
                      /\ ToNumber(SettledValue(item, "PriorityLevel")) # Val(3, 0))

\* the sentence searched over the records of PriorityLevel 4 and 2
C12_Witness ==
  /\ SearchShown
  /\ search.activeDataType = "clients"
  /\ search.query = <<"priority", "level", "greater", "than", "3">>
  /\ ~search.answered
  /\ SearchData = <<HighClient, LowClient>>
  /\ search.results = <<HighClient>>

---------------------------------------------------------------------------
(* Properties of the converter *)

\* a conversion has ended without a throw and its sentence is still in the box
ConverterDone ==
  /\ converter.phase = "idle"
  /\ converter.input # ""
  /\ ~converter.threw

\* the groups and patterns of rulePatterns that match a sentence
MatchingPatterns(lower) ==
  {gp \in (1..Len(rulePatterns)) \X (1..3) :
     Test(rulePatterns[gp[1]].patterns[gp[2]].pairs, lower)}

WeightOf(gp) == rulePatterns[gp[1]].patterns[gp[2]].weight

\* C13: rule type classification.  The rule the converter shows for a sentence
\* has the type of the group that holds the matching pattern of the highest
\* weight, the group declared first when several groups hold one; the
\* confidence the extraction starts from is that weight; and the result is
\* null exactly when no pattern of any group matches.
C13_Classification ==
  ConverterDone =>
    LET lower == LowerCase(converter.input)
        matching == MatchingPatterns(lower)
        top == CHOOSE gp \in matching : \A other \in matching : WeightOf(other) <= WeightOf(gp)
        first == CHOOSE g \in 1..Len(rulePatterns) :
                   /\ \E gp \in matching : gp[1] = g /\ WeightOf(gp) = WeightOf(top)
                   /\ \A gp \in matching : WeightOf(gp) = WeightOf(top) => gp[1] >= g
    IN  /\ converter.parsedRule = NoRule <=> matching = {}
        /\ matching # {} =>
             /\ converter.parsedRule.type = rulePatterns[first].type
             /\ BestMatch(lower, 1, NoMatch).confidence = WeightOf(top)

\* a sentence that two groups match with the same weight has the type of the
\* group declared first
C13_Witness ==
  /\ ConverterDone
  /\ converter.input = "Limit DataTeam to max 3 shared tasks"
  /\ <<2, 1>> \in MatchingPatterns(LowerCase(converter.input))
  /\ <<3, 1>> \in MatchingPatterns(LowerCase(converter.input))
  /\ converter.parsedRule.type = "slotRestriction"

\* the PreferredPhases of the first task with the ID, as the set of the numbers
\* its list, its JSON text or its text with commas holds
PhaseNumbers(tasks, taskId) ==
  LET t == CHOOSE t \in 1..Len(tasks) :
             IsTask(tasks[t], taskId) /\ \A u \in 1..(t - 1) : ~IsTask(tasks[u], taskId)
      items == parseArrayField(Property(tasks[t], "PreferredPhases"))
  IN  {ToNumber(items[i]) : i \in {j \in 1..Len(items) : ~ToNumber(items[j]).nan}}

\* C14: coRun cross-check.  A coRun rule with at least two valid task IDs
\* carries the warning about no overlapping preferred phases exactly when the
\* PreferredPhases of its tasks have no phase in common, and carries the
\* suggestion naming the common phases otherwise, whether PreferredPhases is a
\* list, a text with commas or a JSON text, of numbers or of numerals.
C14_CoRunCrossCheck ==
  (/\ ConverterDone
   /\ converter.parsedRule # NoRule
   /\ converter.parsedRule.type = "coRun"
   /\ Len(converter.parsedRule.tasks) >= 2)
  => LET rule == converter.parsedRule
         common == {phase \in PhaseNumbers(dataSet.tasks, rule.tasks[1]) :
                      \A i \in 2..Len(rule.tasks) :
                        phase \in PhaseNumbers(dataSet.tasks, rule.tasks[i])}
     IN  /\ NoCommonPhases \in Range(rule.warnings) <=> common = {}
         /\ common # {} => "commonPhases" \in Range(rule.suggestions)

\* a coRun rule is shown
CoRunShown ==
  /\ ConverterDone
  /\ converter.parsedRule # NoRule
  /\ converter.parsedRule.type = "coRun"

\* the places of the sentence where a Task-ID token of the task collection
\* begins
ValidTokens(input, tasks) ==
  {i \in 1..Len(input) :
     /\ CharAt(input, i) = "T"
     /\ IsDigitChar(CharAt(input, i + 1))
     /\ \E t \in 1..Len(tasks) :
          IsTask(tasks[t], SubSeq(input, i, RunEnd(input, i + 1, "digit")))}

\* the weight the coRun patterns give the sentence
CoRunSeed == typeConfidence(rulePatterns[1].patterns, LowerCase(converter.input))

\* C15: coRun extraction.  parameters.tasks is populated, and the
\* confidence raised by 0.1, exactly when the sentence holds at least two
\* Task-ID tokens of the task collection; in every other case a warning is
\* recorded and the confidence lowered by 0.2.
C15_TasksOrWarning ==
  CoRunShown =>
    LET rule == converter.parsedRule
        enough == Cardinality(ValidTokens(converter.input, dataSet.tasks)) >= 2
    IN  /\ rule.tasks # <<>> <=> enough
        /\ enough => rule.confidence = Clamp(Add(CoRunSeed, 100))
        /\ ~enough => /\ NeedTwoTasks \in Range(rule.warnings)
                      /\ rule.confidence = Clamp(Add(CoRunSeed, -200))

\* C16: every ParsedRule shown to the user, produced by the local parse or
\* taken from an answer of the assist endpoint, has a confidence that is a
\* number from 0 to 1.
C16_ConfidenceInRange ==
  (converter.phase # "unmounted" /\ converter.parsedRule # NoRule)
    => /\ "confidence" \in DOMAIN converter.parsedRule
       /\ converter.parsedRule.confidence \in 0..1000

\* the rule shown after the endpoint answered 2xx with a rule of confidence
\* 1.5, for a sentence whose weight and two raises add up to 1.05
C16_Witness ==
  /\ ConverterDone
  /\ converter.answered
  /\ converter.reply.ok
  /\ converter.reply.parsed = "answer"
  /\ converter.reply.content.confidence = 1500
  /\ converter.input = "Limit Enterprise clients to maximum 3 shared slots per phase"
  /\ AddAll(850, <<100, 100>>) = 1050
  /\ converter.parsedRule # NoRule
  /\ converter.parsedRule.confidence = 1000

\* C17: promotion gate.  Every rule that entered the rule collection through
\* the converter was made from a ParsedRule that had, when Create Rule was
\* clicked, a numeric confidence of at least 0.5 and no warnings; a ParsedRule
\* with a warning or with a confidence below 0.5 is never promoted.
C17_PromotionGate ==
  converter.phase # "unmounted" =>
    \A r \in 1..Len(converter.rules) :
      /\ converter.rules[r].from.confidence \in 500..1000
      /\ converter.rules[r].from.warnings = <<>>

\* Create Rule was clicked on a ParsedRule that passed the gate: the collection
\* holds the rule, the sentence and the ParsedRule are cleared
C17_Witness ==
  /\ converter.phase = "idle"
  /\ Len(converter.rules) = 1
  /\ converter.rules[1].type = "coRun"
  /\ converter.rules[1].from.confidence = 1000
  /\ converter.rules[1].from.warnings = <<>>
  /\ converter.parsedRule = NoRule
  /\ converter.input = ""

---------------------------------------------------------------------------
(* Properties of the fallback *)

\* the search with assist has ended a search whose request was answered
SearchAnswered ==
  /\ search.phase = "idle"
  /\ search.component = "assist"
  /\ search.answered

\* the converter has ended a conversion whose request was answered
ConverterAnswered ==
  /\ converter.phase = "idle"
  /\ converter.answered
  /\ converter.input # ""

\* the search shows the conditions of the local parser and the records the
\* executor finds with them
SearchIsLocal ==
  LET conditions == parseNaturalLanguage(search.query, search.activeDataType)
      run == executeSearch(SearchData, conditions, <<>>)
  IN  /\ search.parsedQuery = conditions
      /\ search.published = ~run.threw
      /\ search.published => search.results = run.results

\* the converter shows the rule of the local parse, nothing when it threw
ConverterIsLocal ==
  LET local == parseNaturalLanguageRule(converter.input, dataSet)
  IN  /\ converter.threw = local.threw
      /\ converter.parsedRule = (IF local.threw THEN NoRule ELSE local.rule)

\* C18: External Assist fallback.  When the assist endpoint answers with a
\* status that is not 2xx, the condition parser and the rule converter each end
\* with exactly the result of the local heuristic for the same input, and one
\* request was sent.
C18_FallbackOnFailure ==
  /\ (SearchAnswered /\ ~search.reply.ok) => (SearchIsLocal /\ search.sent = 1)
  /\ (ConverterAnswered /\ ~converter.reply.ok) => (ConverterIsLocal /\ converter.sent = 1)

\* a search answered with a failure that shows local conditions and the records
\* they find
C18_Witness ==
  /\ SearchAnswered
  /\ ~search.reply.ok
  /\ search.query = <<"priority", "level", "greater", "than", "3">>
  /\ search.parsedQuery = <<Condition("PriorityLevel", ">", Num(3), "numeric")>>
  /\ search.results = <<HighClient>>

\* the enhanced search has ended a search whose request was answered
EnhancedAnswered ==
  /\ search.phase = "idle"
  /\ search.component = "enhanced"
  /\ search.answered

\* the answer is 2xx and its text holds no JSON, or JSON without a key that is
\* read
Unusable(reply) == reply.ok /\ reply.parsed \in {"none", "object", "partial"}

\* the enhanced search hands over the records that hold the query in one of
\* their values, letters compared without their case
EnhancedIsLocal ==
  LET data == EnhancedData(dataSet)
      wanted == LowerCase(Phrase(search.query, " "))
      holds == {i \in 1..Len(data) :
                  \E key \in DOMAIN data[i] :
                    /\ data[i][key].k \notin {"undef", "null"}
                    /\ Has(LowerCase(Phrase(ToStr(data[i][key]), "")), wanted)}
  IN  /\ search.published
      /\ Range(search.results) = {data[i] : i \in holds}
      /\ \A i, j \in 1..Len(search.results) :
           i < j => \E a, b \in holds :
                      a < b /\ data[a] = search.results[i] /\ data[b] = search.results[j]

\* C19: a 2xx answer of the assist endpoint whose text cannot be parsed as
\* JSON, or whose JSON lacks the expected keys, ends in the result of the local
\* heuristic at every call site: the condition search, the rule converter and
\* the Gemini-enhanced search.
C19_FallbackOnUnusableAnswer ==
  /\ (SearchAnswered /\ Unusable(search.reply)) => SearchIsLocal
  /\ (ConverterAnswered /\ Unusable(converter.reply)) => ConverterIsLocal
  /\ (EnhancedAnswered /\ Unusable(search.reply)) => EnhancedIsLocal

\* C20: when an API key is configured, every search request and every
\* rule-conversion request sends a request to the assist endpoint before the
\* local heuristic runs; when no key is configured no request is sent and the
\* result is that of the local heuristic.
C20_AssistFirstWhenConfigured ==
  /\ (/\ search.phase = "idle"
      /\ search.component = "assist"
      /\ search.searches > 0)
       => IF search.geminiApiKey THEN search.sent = 1
          ELSE search.sent = 0 /\ SearchIsLocal
  /\ (/\ converter.phase = "idle"
      /\ converter.conversions > 0
      /\ converter.input # "")
       => IF converter.pageKey THEN converter.sent = 1
          ELSE converter.sent = 0 /\ ConverterIsLocal

---------------------------------------------------------------------------
(* Properties of the load limit extraction *)

\* a conversion has ended with a loadLimit rule
LoadLimitShown == ConverterDone /\ converter.parsedRule.type = "loadLimit"

\* the weight the classification of the sentence starts the confidence from
SeedOf(lower) ==
  LET matching == MatchingPatterns(lower)
  IN  WeightOf(CHOOSE gp \in matching : \A other \in matching : WeightOf(other) <= WeightOf(gp))

\* the sentence names a worker group of the data set, in any case of letters
WorkerGroupNamed ==
  \E w \in 1..Len(dataSet.workers) :
    LET group == Property(dataSet.workers[w], "WorkerGroup")
    IN  /\ group.k = "str"
        /\ Truthy(group)
        /\ Has(LowerCase(converter.input), LowerCase(CellText(group)))

---------------------------------------------------------------------------
(* Properties of the example sentences of the converter *)

\* exampleRules: the sentences of the example cards and the rule type each
\* card is labelled with
exampleRules ==
  <<[text |-> "Tasks T001 and T003 must run together in the same phase",
     type |-> "coRun"],
    [text |-> "Limit Enterprise clients to maximum 3 shared slots per phase",
     type |-> "slotRestriction"],
    [text |-> "DataTeam workers should not exceed 4 tasks per phase",
     type |-> "loadLimit"],
    [text |-> "Task T005 can only run in phases 1, 2, or 3",
     type |-> "phaseWindow"],
    [text |-> "All tasks starting with 'CRIT' should be prioritized",
     type |-> "patternMatch"],
    [text |-> "High priority client rules override worker load limits",
     type |-> "precedenceOverride"]>>

\* the local parse of the sentence of example card e has ended
ExampleParsed(e) ==
  /\ converter.phase = "idle"
  /\ converter.input = exampleRules[e].text
  /\ converter.conversions > 0
  /\ ~converter.answered

\* C23: each of the six example sentences of the converter is classified by
\* the local heuristic as the rule type its card is labelled with, and none
\* of them ends with no rule.
C23_ExamplesClassified ==
  \A e \in 1..Len(exampleRules) :
    ExampleParsed(e) =>
      /\ converter.parsedRule # NoRule
      /\ converter.parsedRule.type = exampleRules[e].type

---------------------------------------------------------------------------
(* Properties of the answer of the assist endpoint in the search *)

\* a search with assist has ended, and the endpoint answered it with a 2xx
\* status and a text that holds a JSON object with conditions
SearchAnsweredWithConditions ==
  /\ search.phase = "idle"
  /\ search.component = "assist"
  /\ search.searches > 0
  /\ search.answered
  /\ search.reply.ok
  /\ search.reply.parsed = "answer"

\* C25: when External Assist is on and the assist endpoint answers with a 2xx
\* status and a text that holds a JSON object with a list of conditions, the
\* search executes those conditions and is recorded as AI-enhanced, and the
\* local parser is not what produced the conditions shown.
C25_AssistAnswerUsed ==
  SearchAnsweredWithConditions =>
    /\ search.parsedQuery = AnswerConditions(search.reply.content)
    /\ search.published => search.aiEnhanced

---------------------------------------------------------------------------
(* Properties of blank values under numeric conditions *)

\* an empty string, or one of blanks only
IsBlank(value) == value.k = "str" /\ Trim(value.s) = <<>>

\* the value of the field of a condition as the executor of the component
\* resolves it
ResolvedValue(item, field) ==
  IF search.component = "assist" THEN FieldValue(item, field, <<>>)
  ELSE getNestedValue(item, field)

\* a search of one of the two search boxes has handed its records to the grid
SearchPublished ==
  /\ search.phase = "idle"
  /\ search.component \in {"assist", "plain"}
  /\ search.searches > 0
  /\ search.published

\* C30: a record whose resolved field value is blank (an empty string or one
\* of blanks only) never satisfies a numeric condition, whatever the operator
\* and the condition value: no record found by a search has a blank value in
\* the field of a numeric condition of that search.
C30_BlankNeverNumeric ==
  SearchPublished =>
    \A r \in 1..Len(search.results), c \in 1..Len(search.parsedQuery) :
      search.parsedQuery[c].type = "numeric"
        => ~IsBlank(ResolvedValue(search.results[r], search.parsedQuery[c].field))

---------------------------------------------------------------------------
(* Properties of the phase saturation check *)

\* the phases a list cell includes: the numbers among its items
PhasesIn(cell) ==
  {ToNumber(item) : item \in Range(parseArrayField(cell))} \ {NaN}

\* the sum of the amounts of the rows whose list cell includes the phase, each
\* row counted once
IncludingSum(rows, listField, amountField, phase) ==
  SeqSum([i \in 1..Len(rows) |->
            IF phase \in PhasesIn(rows[i][listField])
            THEN ParseIntOrZero(rows[i][amountField]) ELSE 0])

capacity(ds, phase) == IncludingSum(ds.workers, "AvailableSlots", "MaxLoadPerPhase", phase)
demand(ds, phase) == IncludingSum(ds.tasks, "PreferredPhases", "Duration", phase)

\* the phases of a dataset
PhasesOfData(ds) ==
  UNION ({PhasesIn(ds.workers[i].AvailableSlots) : i \in 1..Len(ds.workers)}
         \cup {PhasesIn(ds.tasks[i].PreferredPhases) : i \in 1..Len(ds.tasks)})

\* the Phase Saturation findings fs are one high warning naming demand and
\* capacity for each phase whose demand exceeds its capacity, and no other
PhaseSaturationRule(ds, fs) ==
  LET over == {p \in PhasesOfData(ds) : demand(ds, p) > capacity(ds, p)}
  IN  /\ Len(fs) = Cardinality(over)
      /\ \A p \in over :
           \E i \in 1..Len(fs) :
             /\ fs[i].type = "warning" /\ fs[i].severity = "high"
             /\ fs[i].msg = <<ToStr(Frac(p.n, p.f)), IntToAtoms(demand(ds, p)),
                              IntToAtoms(capacity(ds, p))>>

\* C24: phase saturation.  For every phase p, capacity(p) is the sum of
\* MaxLoadPerPhase over the workers whose AvailableSlots include p, each worker
\* counted once, and demand(p) the sum of Duration over the tasks whose
\* PreferredPhases include p, each task counted once; a run that has
\* published its findings has emitted exactly one high Phase Saturation
\* warning naming both numbers for each phase with demand(p) > capacity(p) and
\* none for any other phase.
C24_PhaseSaturation ==
  \A r \in 1..Len(runs) :
    runs[r].status = "done" =>
      PhaseSaturationRule(runs[r].data0,
                          WithCategory(runs[r].results, "Phase Saturation"))

---------------------------------------------------------------------------
(* Properties of the validating flag *)

\* a run of the panel on the page has started and has not published its findings
RunInProgress ==
  /\ activeTab = "data"
  /\ \E r \in 1..Len(runs) : runs[r].status = "running" /\ runs[r].attached

\* C26: the validating flag is true in every state in which some validation
\* run of the panel has started and not yet published its findings, so the
\* Re-validate button is never enabled while a run is in progress, also when a
\* change of the data starts a run while another is still running.
C26_ValidatingWhileRunning == RunInProgress => isValidating

---------------------------------------------------------------------------
(* RuleBuilder, PrioritizationControls and ExportInterface: the rules,     *)
(* priorities and export tabs of the page.  Each component is on the page  *)
(* while its tab is open and starts from its initial state when it opens.  *)

\* the rules of a collection
MaxRules == 2
\* the readings of the wall clock, in milliseconds
MaxTime == 2

\* Date.now() and new Date(): the wall clock is read at each call, and nothing
\* in the program orders two readings
Times == 1..MaxTime

\* the rule types of the manual builder's cards and the names typed
RuleTypes == {"loadLimit"}
RuleNames == {"A"}

\* the rules the converter hands to onRuleCreated
AiRules == {[type |-> "coRun", name |-> "Co-run T1, T2"]}

\* currentRule = {}
NoCurrentRule == [type |-> "", name |-> ""]

\* RuleBuilder as mounted
RuleBuilderMounted ==
  [phase |-> "mounted", rules |-> <<>>, isCreatingRule |-> FALSE,
   currentRule |-> NoCurrentRule]

\* a rule of the collection
Rule(id, type, name, priority, enabled) ==
  [id |-> id, type |-> type, name |-> name, priority |-> priority, enabled |-> enabled]

\* a card of the manual builder is clicked
SelectRuleType(type) ==
  /\ ruleBuilder.phase = "mounted"
  /\ ~ruleBuilder.isCreatingRule
  /\ ruleBuilder' = [ruleBuilder EXCEPT !.isCreatingRule = TRUE,
                                        !.currentRule = [type |-> type, name |-> ""]]
  /\ UNCHANGED <<dataVars, gridVars, activeTab, prioritization, exporter, downloads>>

\* the name of the rule is typed into the form
SetRuleName(name) ==
  /\ ruleBuilder.phase = "mounted"
  /\ ruleBuilder.isCreatingRule
  /\ ruleBuilder.currentRule.name # name
  /\ ruleBuilder' = [ruleBuilder EXCEPT !.currentRule.name = name]
  /\ UNCHANGED <<dataVars, gridVars, activeTab, prioritization, exporter, downloads>>

\* the Cancel button of the form
CancelRule ==
  /\ ruleBuilder.phase = "mounted"
  /\ ruleBuilder.isCreatingRule
  /\ ruleBuilder' = [ruleBuilder EXCEPT !.isCreatingRule = FALSE,
                                        !.currentRule = NoCurrentRule]
  /\ UNCHANGED <<dataVars, gridVars, activeTab, prioritization, exporter, downloads>>

\* createRule, the Create Rule button being disabled without a name: the id
\* of the rule is the reading of the clock
createRule(time) ==
  /\ ruleBuilder.phase = "mounted"
  /\ ruleBuilder.isCreatingRule
  /\ ruleBuilder.currentRule.name # ""
  /\ ruleBuilder.currentRule.type # ""
  /\ Len(ruleBuilder.rules) < MaxRules
  /\ ruleBuilder' = [ruleBuilder EXCEPT
       !.rules = Append(@, Rule(time, ruleBuilder.currentRule.type,
                                ruleBuilder.currentRule.name, 1, TRUE)),
       !.currentRule = NoCurrentRule,
       !.isCreatingRule = FALSE]
  /\ UNCHANGED <<dataVars, gridVars, activeTab, prioritization, exporter, downloads>>

\* the converter's Create Rule button: handleAIRuleCreated with the rule shown
AiRuleCreated(aiRule, time) ==
  /\ ruleBuilder.phase = "mounted"
  /\ Len(ruleBuilder.rules) < MaxRules
  /\ ruleBuilder' = [ruleBuilder EXCEPT
       !.rules = Append(@, Rule(time, aiRule.type, aiRule.name, 1, TRUE))]
  /\ UNCHANGED <<dataVars, gridVars, activeTab, prioritization, exporter, downloads>>

\* rules.filter((rule) => rule.id !== ruleId)
WithoutRule(rules, ruleId) ==
  LET Other(rule) == rule.id # ruleId IN SelectSeq(rules, Other)

\* rules.map((rule) => (rule.id === ruleId ? {...rule, enabled: !rule.enabled} : rule))
WithToggled(rules, ruleId) ==
  [i \in 1..Len(rules) |->
     IF rules[i].id = ruleId THEN [rules[i] EXCEPT !.enabled = ~@] ELSE rules[i]]

\* the delete button of the rule at position i of the list
deleteRule(i) ==
  /\ ruleBuilder.phase = "mounted"
  /\ i \in 1..Len(ruleBuilder.rules)
  /\ ruleBuilder' = [ruleBuilder EXCEPT !.rules = WithoutRule(@, ruleBuilder.rules[i].id)]
  /\ UNCHANGED <<dataVars, gridVars, activeTab, prioritization, exporter, downloads>>

\* the checkbox of the rule at position i of the list
toggleRule(i) ==
  /\ ruleBuilder.phase = "mounted"
  /\ i \in 1..Len(ruleBuilder.rules)
  /\ ruleBuilder' = [ruleBuilder EXCEPT !.rules = WithToggled(@, ruleBuilder.rules[i].id)]
  /\ UNCHANGED <<dataVars, gridVars, activeTab, prioritization, exporter, downloads>>

\* a rule as a configuration file holds it
ExportedRule(rule) ==
  [id |-> rule.id, type |-> rule.type, name |-> rule.name, priority |-> rule.priority]

\* rules-config.json
RulesFile(time, rules) ==
  [name |-> "rules-config.json", version |-> "1.0", generatedAt |-> time,
   rules |-> rules]

\* generateRulesConfig, its button being disabled while there is no rule: the
\* enabled rules are written
generateRulesConfig(time) ==
  LET Enabled(rule) == rule.enabled
      enabled == SelectSeq(ruleBuilder.rules, Enabled)
  IN  /\ ruleBuilder.phase = "mounted"
      /\ Len(ruleBuilder.rules) > 0
      /\ downloads' = RulesFile(time, [i \in 1..Len(enabled) |-> ExportedRule(enabled[i])])
      /\ UNCHANGED <<dataVars, gridVars, activeTab, ruleBuilder, prioritization, exporter>>


\* the weights PrioritizationControls starts with
InitialWeights ==
  [clientImportance |-> 75, workerSkillMatch |-> 85, taskUrgency |-> 90,
   resourceAvailability |-> 70, costEfficiency |-> 60, workloadBalance |-> 80]

\* the priorities PrioritizationControls starts with
InitialPriorities ==
  [highPriorityClients |-> <<>>, criticalSkills |-> <<>>, urgentTasks |-> <<>>,
   preferredWorkers |-> <<>>]

\* the weights of two of the presets
presets ==
  [balanced |->
     [clientImportance |-> 75, workerSkillMatch |-> 75, taskUrgency |-> 75,
      resourceAvailability |-> 75, costEfficiency |-> 75, workloadBalance |-> 75],
   clientFocused |->
     [clientImportance |-> 95, workerSkillMatch |-> 70, taskUrgency |-> 85,
      resourceAvailability |-> 60, costEfficiency |-> 50, workloadBalance |-> 65]]

\* PrioritizationControls as mounted
PrioritizationMounted ==
  [phase |-> "mounted", weights |-> InitialWeights, priorities |-> InitialPriorities,
   activePreset |-> "balanced"]

\* the sliders moved and the values they are moved to
SliderKeys == {"clientImportance", "taskUrgency"}
SliderValues == {50}

\* the items ticked in the lists of priorities
PriorityItems == [urgentTasks |-> {"T1"}]

applyPreset(presetKey) ==
  /\ prioritization.phase = "mounted"
  /\ prioritization' = [prioritization EXCEPT !.weights = presets[presetKey],
                                              !.activePreset = presetKey]
  /\ UNCHANGED <<dataVars, gridVars, activeTab, ruleBuilder, exporter, downloads>>

updateWeight(key, value) ==
  /\ prioritization.phase = "mounted"
  /\ prioritization' = [prioritization EXCEPT !.weights[key] = value,
                                              !.activePreset = "custom"]
  /\ UNCHANGED <<dataVars, gridVars, activeTab, ruleBuilder, exporter, downloads>>

\* the item leaves the list that holds it and joins the end of one that does not
Toggled(list, item) ==
  LET Other(i) == i # item
  IN  IF item \in Range(list) THEN SelectSeq(list, Other) ELSE Append(list, item)

togglePriority(category, item) ==
  /\ prioritization.phase = "mounted"
  /\ prioritization' = [prioritization EXCEPT !.priorities[category] = Toggled(@, item)]
  /\ UNCHANGED <<dataVars, gridVars, activeTab, ruleBuilder, exporter, downloads>>

\* prioritization-config.json
PrioritizationFile(time, preset, weights, priorities) ==
  [name |-> "prioritization-config.json", version |-> "1.0", generatedAt |-> time,
   preset |-> preset, weights |-> weights, priorities |-> priorities]

\* exportPrioritizationConfig of PrioritizationControls
exportPrioritizationConfig(time) ==
  /\ prioritization.phase = "mounted"
  /\ downloads' = PrioritizationFile(time, prioritization.activePreset,
                                     prioritization.weights, prioritization.priorities)
  /\ UNCHANGED <<dataVars, gridVars, activeTab, ruleBuilder, prioritization, exporter>>

\* ExportInterface as mounted; step is where handleExportAll stands, options
\* the exportOptions its closure holds
ExportInterfaceMounted ==
  [phase |-> "mounted",
   exportOptions |-> [rulesConfig |-> TRUE, prioritizationConfig |-> TRUE],
   isExporting |-> FALSE, step |-> "none",
   options |-> [rulesConfig |-> TRUE, prioritizationConfig |-> TRUE]]

\* a checkbox of the export options
toggleOption(option) ==
  /\ exporter.phase = "mounted"
  /\ exporter' = [exporter EXCEPT !.exportOptions[option] = ~@]
  /\ UNCHANGED <<dataVars, gridVars, activeTab, ruleBuilder, prioritization, downloads>>

\* the rule exportRulesConfig of ExportInterface writes
SampleRule == [id |-> "sample-rule-1", type |-> "coRun", name |-> "Critical Tasks Co-Run",
               priority |-> 1]

\* the Export button, disabled while an export runs or no option is ticked:
\* handleExportAll up to the first file of the two configurations
handleExportAll ==
  /\ exporter.phase = "mounted"
  /\ ~exporter.isExporting
  /\ exporter.exportOptions.rulesConfig \/ exporter.exportOptions.prioritizationConfig
  /\ exporter' = [exporter EXCEPT !.isExporting = TRUE, !.step = "rulesConfig",
                                  !.options = exporter.exportOptions]
  /\ UNCHANGED <<dataVars, gridVars, activeTab, ruleBuilder, prioritization, downloads>>

\* exportRulesConfig of ExportInterface, when its option is ticked
ExportRulesStep(time) ==
  /\ exporter.phase \in {"mounted", "left"}
  /\ exporter.step = "rulesConfig"
  /\ exporter' = [exporter EXCEPT !.step = "prioritizationConfig"]
  /\ downloads' = IF exporter.options.rulesConfig THEN RulesFile(time, <<SampleRule>>)
                  ELSE downloads
  /\ UNCHANGED <<dataVars, gridVars, activeTab, ruleBuilder, prioritization>>

\* exportPrioritizationConfig of ExportInterface, when its option is ticked,
\* and the end of handleExportAll
ExportPrioritizationStep(time) ==
  /\ exporter.phase \in {"mounted", "left"}
  /\ exporter.step = "prioritizationConfig"
  /\ exporter' = IF exporter.phase = "left" THEN Unmounted
                 ELSE [exporter EXCEPT !.step = "none", !.isExporting = FALSE]
  /\ downloads' = IF exporter.options.prioritizationConfig
                  THEN PrioritizationFile(time, "balanced", InitialWeights, InitialPriorities)
                  ELSE downloads
  /\ UNCHANGED <<dataVars, gridVars, activeTab, ruleBuilder, prioritization>>

\* the component on the page under each of the three tabs
BuilderTabs == {"rules", "priorities", "export"}

TabOpen(tab) ==
  /\ activeTab = tab
  /\ ruleBuilder = IF tab = "rules" THEN RuleBuilderMounted ELSE Unmounted
  /\ prioritization = IF tab = "priorities" THEN PrioritizationMounted ELSE Unmounted
  /\ exporter = IF tab = "export" THEN ExportInterfaceMounted ELSE Unmounted

\* setActiveTab: the component of the tab left is dropped with its state and
\* the component of the tab opened starts from its initial state.  A call of
\* handleExportAll under way goes on when its tab is left (phase "left"); the
\* export tab is opened again after it has ended.
OpenTab(tab) ==
  /\ activeTab # tab
  /\ tab = "export" => exporter = Unmounted
  /\ activeTab' = tab
  /\ ruleBuilder' = IF tab = "rules" THEN RuleBuilderMounted ELSE Unmounted
  /\ prioritization' = IF tab = "priorities" THEN PrioritizationMounted ELSE Unmounted
  /\ exporter' = IF tab = "export" THEN ExportInterfaceMounted
                 ELSE IF exporter # Unmounted /\ exporter.isExporting
                 THEN [exporter EXCEPT !.phase = "left"]
                 ELSE Unmounted
  /\ UNCHANGED <<dataVars, gridVars, downloads>>

BuilderInit ==
  /\ dataSet = [clients |-> <<BaseClient>>, workers |-> <<BaseWorker>>, tasks |-> <<BaseTask>>]
  /\ rowsId = [clients |-> 1, workers |-> 1, tasks |-> 1]
  /\ validationResults = <<>>
  /\ isValidating = FALSE
  /\ validationProgress = 0
  /\ currentStep = ""
  /\ runs = <<>>
  /\ uploads = 0
  /\ edits = 0
  /\ search = Unmounted
  /\ converter = Unmounted
  /\ grid = Unmounted
  /\ calls = <<>>
  /\ downloads = NoFile
  /\ TabOpen("rules")

BuilderNext ==
  \/ \E tab \in BuilderTabs : OpenTab(tab)
  \/ \E type \in RuleTypes : SelectRuleType(type)
  \/ \E name \in RuleNames : SetRuleName(name)
  \/ CancelRule
  \/ \E time \in Times : createRule(time)
  \/ \E aiRule \in AiRules, time \in Times : AiRuleCreated(aiRule, time)
  \/ \E i \in 1..MaxRules : deleteRule(i)
  \/ \E i \in 1..MaxRules : toggleRule(i)
  \/ \E time \in Times : generateRulesConfig(time)
  \/ \E presetKey \in DOMAIN presets : applyPreset(presetKey)
  \/ \E key \in SliderKeys, value \in SliderValues : updateWeight(key, value)
  \/ \E category \in DOMAIN PriorityItems : \E item \in PriorityItems[category] :
       togglePriority(category, item)
  \/ \E time \in Times : exportPrioritizationConfig(time)
  \/ \E option \in {"rulesConfig", "prioritizationConfig"} : toggleOption(option)
  \/ handleExportAll
  \/ \E time \in Times : ExportRulesStep(time)
  \/ \E time \in Times : ExportPrioritizationStep(time)

BuilderSpec == BuilderInit /\ [][BuilderNext]_vars


---------------------------------------------------------------------------
(* Properties of the exports *)

\* the rule collection of the page: that of RuleBuilder, which starts empty
\* whenever the rules tab opens
CurrentRules == IF ruleBuilder.phase = "mounted" THEN ruleBuilder.rules ELSE <<>>

\* the weights, priorities and preset of the page: those of
\* PrioritizationControls, which start from the initial ones whenever the
\* priorities tab opens
CurrentPrioritization ==
  IF prioritization.phase = "mounted"
  THEN [preset |-> prioritization.activePreset, weights |-> prioritization.weights,
        priorities |-> prioritization.priorities]
  ELSE [preset |-> "balanced", weights |-> InitialWeights, priorities |-> InitialPriorities]

\* the file holds rules of the collection only, and every enabled one
ReflectsRules(file, rules) ==
  /\ \A i \in 1..Len(file.rules) :
       \E j \in 1..Len(rules) : file.rules[i] = ExportedRule(rules[j])
  /\ \A j \in 1..Len(rules) :
       rules[j].enabled => \E i \in 1..Len(file.rules) : file.rules[i] = ExportedRule(rules[j])

\* C22: every export reflects the current state.  A rules configuration that
\* is written holds the rules of the current rule collection, a
\* prioritization configuration that is written holds the current weights and
\* priorities, and each has a version and a generatedAt.
C22_ExportsReflectState ==
  [][downloads' # downloads =>
       /\ downloads'.version = "1.0"
       /\ downloads'.generatedAt \in Times
       /\ downloads'.name = "rules-config.json" => ReflectsRules(downloads', CurrentRules)
       /\ downloads'.name = "prioritization-config.json" =>
            /\ downloads'.weights = CurrentPrioritization.weights
            /\ downloads'.priorities = CurrentPrioritization.priorities]_vars


---------------------------------------------------------------------------
(* Properties of the rule collection *)

\* the ids of the rules are pairwise distinct
RuleIdsDistinct(rules) ==
  \A i \in 1..Len(rules), j \in 1..Len(rules) : i # j => rules[i].id # rules[j].id

\* `after` is `before` without the rule at one position, the others in order
OneRemoved(before, after) ==
  \E i \in 1..Len(before) :
    after = SubSeq(before, 1, i - 1) \o SubSeq(before, i + 1, Len(before))

\* `after` is `before` with the enabled flag of the rule at one position flipped
OneFlipped(before, after) ==
  \E i \in 1..Len(before) : after = [before EXCEPT ![i].enabled = ~@]

\* C29: the ids of the rules are pairwise distinct in every rule collection
\* reached, so a deletion removes exactly one rule and a toggle flips the
\* enabled flag of exactly one rule, every other rule and the order of the
\* collection being left as they were.
C29_RuleIdsDistinct ==
  [][(ruleBuilder.phase = "mounted" /\ ruleBuilder'.phase = "mounted") =>
       /\ RuleIdsDistinct(ruleBuilder'.rules)
       /\ Len(ruleBuilder'.rules) < Len(ruleBuilder.rules)
            => OneRemoved(ruleBuilder.rules, ruleBuilder'.rules)
       /\ (/\ Len(ruleBuilder'.rules) = Len(ruleBuilder.rules)
           /\ ruleBuilder'.rules # ruleBuilder.rules)
            => OneFlipped(ruleBuilder.rules, ruleBuilder'.rules)]_vars


---------------------------------------------------------------------------
(* DataGrid and the searches of its NaturalLanguageSearch.  A call of      *)
(* handleSearch holds the query, the collection tab and the rows of the    *)
(* render it was started from; several calls may be under way at once,     *)
(* since the Enter key starts one whatever isProcessing says.              *)

\* the searches submitted in one behaviour
MaxCalls == 2
\* the files that arrive while the grid is on the page
MaxGridUploads == 1

\* the queries typed into the search box of the grid
GridQueries ==
  {<<"priority", "level", "greater", "than", "3">>,
   <<"priority", "level", "less", "than", "3">>}

\* what the assist endpoint answers a search of the grid with
GridReplies == {NoReply, Reply(TRUE, "none", <<>>)}

\* the data on the page when the grid opens
GridDataSet ==
  [clients |-> <<HighClient, LowClient>>, workers |-> <<SkilledWorker>>, tasks |-> <<>>]

\* a file of clients that arrives while the grid is on the page
NewClients == <<[ClientID |-> S("C7"), ClientName |-> S("Acme"), PriorityLevel |-> Num(5)]>>

\* DataGrid as mounted
GridMounted ==
  [phase |-> "mounted", activeDataType |-> "clients", filteredData |-> <<>>,
   isNaturalLanguageActive |-> FALSE, activeSearchQuery |-> <<>>,
   searchConditions |-> <<>>]

\* displayData with an empty quick search
displayData ==
  IF grid.isNaturalLanguageActive THEN grid.filteredData
  ELSE dataSet[grid.activeDataType]

\* handleNaturalLanguageResults
handleNaturalLanguageResults(g, results, query, conditions) ==
  [g EXCEPT !.filteredData = results,
            !.activeSearchQuery = query,
            !.searchConditions = conditions,
            !.isNaturalLanguageActive = Len(query) > 0]

\* clearAllFilters
clearAllFilters(g) ==
  [g EXCEPT !.filteredData = <<>>,
            !.activeSearchQuery = <<>>,
            !.searchConditions = <<>>,
            !.isNaturalLanguageActive = FALSE]

\* the Gemini button of the search box of the grid
GridSetUseGemini ==
  /\ grid.phase = "mounted"
  /\ search.geminiApiKey
  /\ search' = [search EXCEPT !.useGemini = ~@]
  /\ UNCHANGED <<dataSet, rowsId, activeTab, validationResults, isValidating,
                 validationProgress, currentStep, runs, uploads, edits, converter,
                 builderVars, grid, calls>>

\* a query is submitted: handleSearch up to its await.  The Search button is
\* disabled while isProcessing is set (search.phase = "processing"); the Enter
\* key of the text box is not.
SubmitSearch(words, byEnterKey) ==
  LET assist == search.useGemini /\ search.geminiApiKey
  IN  /\ grid.phase = "mounted"
      /\ byEnterKey \/ search.phase = "idle"
      /\ search.searches < MaxCalls
      /\ search' = [search EXCEPT !.phase = "processing",
                                  !.query = words,
                                  !.sent = @ + (IF assist THEN 1 ELSE 0),
                                  !.searches = @ + 1]
      /\ calls' = Append(calls, [no |-> search.searches + 1,
                                 query |-> words,
                                 activeDataType |-> search.activeDataType,
                                 rows |-> dataSet[search.activeDataType],
                                 stage |-> IF assist THEN "waiting" ELSE "delay"])
      /\ UNCHANGED <<dataSet, rowsId, activeTab, validationResults, isValidating,
                     validationProgress, currentStep, runs, uploads, edits, converter,
                     builderVars, grid>>

\* the calls without the one at position c
WithoutCall(c) == SubSeq(calls, 1, c - 1) \o SubSeq(calls, c + 1, Len(calls))

\* the rest of the call at position c: setParsedQuery, executeSearch on the
\* rows the call holds, onSearchResults unless the execution threw, and
\* setIsProcessing(false)
EndCall(c, conditions, run, reply, answered) ==
  /\ search' = [search EXCEPT !.phase = "idle",
                              !.reply = reply,
                              !.answered = answered,
                              !.parsedQuery = conditions,
                              !.results = IF run.threw THEN @ ELSE run.results,
                              !.published = ~run.threw]
  /\ grid' = IF run.threw THEN grid
             ELSE handleNaturalLanguageResults(grid, run.results, calls[c].query, conditions)
  /\ calls' = WithoutCall(c)
  /\ UNCHANGED <<dataSet, rowsId, activeTab, validationResults, isValidating,
                 validationProgress, currentStep, runs, uploads, edits, converter,
                 builderVars>>

\* the execution of the conditions of the call at position c
RunCall(c, conditions, reply, answered) ==
  EndCall(c, conditions, executeSearch(calls[c].rows, conditions, <<>>), reply, answered)

\* the assist endpoint answers the call at position c, at any time
GridAssistAnswers(c, reply) ==
  /\ c \in 1..Len(calls)
  /\ calls[c].stage = "waiting"
  /\ RunCall(c, AssistConditions(reply, calls[c].query, calls[c].activeDataType),
             reply, TRUE)

\* the 800 ms of the call at position c elapse: the timers fire in the order
\* they were set
GridDelayElapses(c) ==
  /\ c \in 1..Len(calls)
  /\ calls[c].stage = "delay"
  /\ \A b \in 1..(c - 1) : calls[b].stage # "delay"
  /\ RunCall(c, parseNaturalLanguage(calls[c].query, calls[c].activeDataType),
             NoReply, FALSE)

\* a collection tab of the grid is clicked: setActiveDataType and
\* clearAllFilters; the search box is given the new collection
SwitchCollection(type) ==
  /\ grid.phase = "mounted"
  /\ grid.activeDataType # type
  /\ grid' = clearAllFilters([grid EXCEPT !.activeDataType = type])
  /\ search' = [search EXCEPT !.activeDataType = type]
  /\ UNCHANGED <<dataSet, rowsId, activeTab, validationResults, isValidating,
                 validationProgress, currentStep, runs, uploads, edits, converter,
                 builderVars, calls>>

\* clearSearch, the X of the text box, shown while it holds a query
clearSearch ==
  /\ grid.phase = "mounted"
  /\ search.query # <<>>
  /\ search' = [search EXCEPT !.query = <<>>, !.parsedQuery = <<>>]
  /\ grid' = handleNaturalLanguageResults(grid, dataSet[search.activeDataType], <<>>, <<>>)
  /\ UNCHANGED <<dataSet, rowsId, activeTab, validationResults, isValidating,
                 validationProgress, currentStep, runs, uploads, edits, converter,
                 builderVars, calls>>

\* the Clear button of the grid, shown while a filter is active
ClearFilters ==
  /\ grid.phase = "mounted"
  /\ grid.isNaturalLanguageActive
  /\ grid' = clearAllFilters(grid)
  /\ UNCHANGED <<dataSet, rowsId, activeTab, validationResults, isValidating,
                 validationProgress, currentStep, runs, uploads, edits, converter,
                 builderVars, search, calls>>

\* handleDataUploaded for a file whose processing ends while the data tab is
\* open: the collection is replaced under the grid
GridUpload(type, rows) ==
  /\ grid.phase = "mounted"
  /\ uploads < MaxGridUploads
  /\ dataSet' = [dataSet EXCEPT ![type] = rows]
  /\ rowsId' = [rowsId EXCEPT ![type] = @ + 1]
  /\ uploads' = uploads + 1
  /\ UNCHANGED <<activeTab, validationResults, isValidating, validationProgress,
                 currentStep, runs, edits, converter, builderVars, search, grid, calls>>

\* another tab of the page is opened: the grid and its search box are dropped
\* and the calls under way end without effect
CloseGrid ==
  /\ grid.phase = "mounted"
  /\ activeTab' = "upload"
  /\ grid' = Unmounted
  /\ search' = Unmounted
  /\ calls' = <<>>
  /\ UNCHANGED <<dataSet, rowsId, validationResults, isValidating, validationProgress,
                 currentStep, runs, uploads, edits, converter, builderVars>>

GridInit ==
  /\ dataSet = GridDataSet
  /\ rowsId = [clients |-> 1, workers |-> 1, tasks |-> 1]
  /\ activeTab = "data"
  /\ validationResults = <<>>
  /\ isValidating = FALSE
  /\ validationProgress = 0
  /\ currentStep = ""
  /\ runs = <<>>
  /\ uploads = 0
  /\ edits = 0
  /\ converter = Unmounted
  /\ ruleBuilder = Unmounted
  /\ prioritization = Unmounted
  /\ exporter = Unmounted
  /\ downloads = NoFile
  /\ \E geminiApiKey \in BOOLEAN : search = SearchMounted("assist", "clients", geminiApiKey)
  /\ grid = GridMounted
  /\ calls = <<>>

GridNext ==
  \/ GridSetUseGemini
  \/ \E words \in GridQueries, byEnterKey \in BOOLEAN : SubmitSearch(words, byEnterKey)
  \/ \E c \in 1..MaxCalls, reply \in GridReplies : GridAssistAnswers(c, reply)
  \/ \E c \in 1..MaxCalls : GridDelayElapses(c)
  \/ \E type \in {"clients", "workers"} : SwitchCollection(type)
  \/ clearSearch
  \/ ClearFilters
  \/ GridUpload("clients", NewClients)
  \/ CloseGrid

GridSpec == GridInit /\ [][GridNext]_vars

---------------------------------------------------------------------------
(* Properties of the rows the grid shows *)

\* C27: whenever natural-language filtering is active in the grid, every row
\* shown is a record of the collection whose tab is active, as the collection
\* is now, whatever the order in which a search starts, the collection tab is
\* switched, new data arrives and the search ends.
C27_ShownRowsAreCurrent ==
  (grid.phase = "mounted" /\ grid.isNaturalLanguageActive) =>
    \A r \in 1..Len(displayData) :
      displayData[r] \in Range(dataSet[grid.activeDataType])

\* C28: once every search submitted has ended, the results and the parsed
\* conditions shown are those of the query submitted last: a search submitted
\* earlier never overwrites the results of one submitted later.
C28_LatestQueryShown ==
  (/\ grid.phase = "mounted"
   /\ grid.isNaturalLanguageActive
   /\ calls = <<>>
   /\ search.query # <<>>)
    => /\ grid.activeSearchQuery = search.query
       /\ grid.searchConditions = search.parsedQuery
       /\ \E type \in {"clients", "workers"} :
            grid.searchConditions = parseNaturalLanguage(search.query, type)

=============================================================================
